---- MODULE Spec2Model ----
(***************************************************************************)
(* A model of pdb_eda's CCP4 density-map reader (src/ccp4.py): header       *)
(* decoding (parse, DensityHeader), the crs <-> xyz conversions, density    *)
(* lookups with periodic normalisation (DensityMatrix.validCRS,             *)
(* getPointDensityFromCrs), the sphere query (getSphereCrsFromXyz) and the  *)
(* blob clustering of findAberrantBlubs.                                    *)
(*                                                                         *)
(* Conventions.  Python lists are sequences; a Python index i is the TLA+   *)
(* index i + 1, and negative Python indices wrap as they do in Python.      *)
(* Python floats are modelled as binary floating-point numbers with a       *)
(* MantBits-bit significand and round-to-nearest-even after every           *)
(* operation (IEEE-754 with a narrower significand).  Cell angles are 90    *)
(* degrees.  A raised Python exception is the value of the field `err` of   *)
(* an operation's outcome.                                                  *)
(***************************************************************************)
EXTENDS Integers, Sequences, FiniteSets, TLC

(***************************************************************************)
(* Bounds of the model.                                                    *)
(***************************************************************************)
\* width of the significand of the modelled floats
MantBits == 6

(***************************************************************************)
(* Floating point: a number is [m |-> significand, e |-> exponent], of      *)
(* value m * 2^e, kept canonical (m odd, or m = 0 and e = 0).               *)
(***************************************************************************)
Pow2(n) == 2 ^ n

Abs(x) == IF x < 0 THEN -x ELSE x

\* F(v), with v evaluated once
With(v, F(_)) == CHOOSE r \in {F(x) : x \in {v}} : TRUE

Sgn(x) == IF x < 0 THEN -1 ELSE IF x > 0 THEN 1 ELSE 0

\* the number of bits of n >= 0 (TLC's integers have 31)
BitLen(n) == IF n <= 0 THEN 0 ELSE CHOOSE k \in 1..31 : 2 ^ (k - 1) <= n /\ n \div 2 < 2 ^ (k - 1)

\* the number of trailing zero bits of n # 0
TrailingZeros(n) == CHOOSE k \in 0..30 : n % (2 ^ k) = 0 /\ n % (2 ^ (k + 1)) # 0

CanonBy(m, e, k) == [m |-> m \div (2 ^ k), e |-> e + k]

Canon(m, e) == IF m = 0 THEN [m |-> 0, e |-> 0] ELSE CanonBy(m, e, TrailingZeros(m))

\* the float nearest to m * 2^e, ties to even
\* a >= 0 without its s >= 1 lowest bits, rounded to nearest, ties to even
RoundShift(a, s) ==
    LET q    == a \div Pow2(s)
        r    == a % Pow2(s)
        half == Pow2(s - 1)
    IN  IF r > half \/ (r = half /\ q % 2 = 1) THEN q + 1 ELSE q

\* m * 2^e rounded to drop s bits of m
FRoundBy(m, e, s) ==
    IF s <= 0 THEN Canon(m, e)
    ELSE Canon(Sgn(m) * RoundShift(Abs(m), s), e + s)

FRound(m, e) == FRoundBy(m, e, BitLen(Abs(m)) - MantBits)

\* float(n) of a Python int
IntToF(n) == FRound(n, 0)

FNeg(a) == [m |-> -a.m, e |-> a.e]

FAdd(a, b) ==
    IF a.m = 0 THEN b
    ELSE IF b.m = 0 THEN a
    ELSE LET e == IF a.e < b.e THEN a.e ELSE b.e
         IN  FRound(a.m * Pow2(a.e - e) + b.m * Pow2(b.e - e), e)

FSub(a, b) == FAdd(a, FNeg(b))

FMul(a, b) == FRound(a.m * b.m, a.e + b.e)

\* a / b for b # 0: the quotient to 2 * MantBits + 2 extra bits, with a sticky bit
DivBits == 2 * MantBits + 2

\* twice the integer quotient n / d, plus 1 if there is a remainder
StickyQuot(n, d) == 2 * (n \div d) + (IF n % d = 0 THEN 0 ELSE 1)

FDiv(a, b) ==
    FRound(Sgn(a.m) * Sgn(b.m) * StickyQuot(Abs(a.m) * Pow2(DivBits), Abs(b.m)),
           a.e - b.e - DivBits - 1)

\* a < b
FLess(a, b) ==
    LET e == IF a.e < b.e THEN a.e ELSE b.e
    IN  a.m * Pow2(a.e - e) < b.m * Pow2(b.e - e)

\* numpy.floor, numpy.ceil and Python's int() of a float
FFloor(a) == IF a.e >= 0 THEN a.m * Pow2(a.e) ELSE a.m \div Pow2(-a.e)

FCeil(a) == -FFloor(FNeg(a))

FTrunc(a) == Sgn(a.m) * FFloor([m |-> Abs(a.m), e |-> a.e])

(***************************************************************************)
(* Python lists and ints.                                                  *)
(***************************************************************************)
\* the 0-based position a Python index i names in a list of length n
PyIdx(n, i) == IF i < 0 THEN i + n ELSE i

\* whether list[i] exists (otherwise Python raises IndexError)
PyInRange(n, i) == PyIdx(n, i) >= 0 /\ PyIdx(n, i) < n

\* list[i]
PyGet(s, i) == s[PyIdx(Len(s), i) + 1]

\* list[i] = v
PySet(s, i, v) == [s EXCEPT ![PyIdx(Len(s), i) + 1] = v]

\* a & b and a | b of non-negative ints
RECURSIVE BitAnd(_, _)
BitAnd(a, b) ==
    IF a = 0 \/ b = 0 THEN 0
    ELSE (a % 2) * (b % 2) + 2 * BitAnd(a \div 2, b \div 2)

RECURSIVE BitOr(_, _)
BitOr(a, b) ==
    IF a = 0 THEN b
    ELSE IF b = 0 THEN a
    ELSE (IF a % 2 = 1 \/ b % 2 = 1 THEN 1 ELSE 0) + 2 * BitOr(a \div 2, b \div 2)

FZero == [m |-> 0, e |-> 0]

(***************************************************************************)
(* DensityHeader.  A file is the record                                    *)
(*   [hdrLen, ncrs, crsStart, nint, len, c2x, futureUse, originEM,          *)
(*    symmetryBytes, dataLen, voxels]                                       *)
(* of the header fields the reader uses (nint = NX, NY, NZ; len = the cell  *)
(* edge lengths; c2x = MAPC, MAPR, MAPS), the number of bytes the file      *)
(* holds for the header (hdrLen) and after it (dataLen), and the floats     *)
(* that follow the symmetry records (voxels, in file order).               *)
(***************************************************************************)
NoHeader == [none |-> TRUE]

Unset == "unset"

\* np.cos(np.pi / 180 * 90.0): not 0 but about a quarter of the gap between 1 and
\* the next float (6.1e-17 in double precision); np.sin of it is 1
Cos90 == [m |-> 1, e |-> -(MantBits + 2)]

\* orthoMat of _calculateOrigin, lines 207-211, for cell angles of 90 degrees
OrthoMat(len) ==
    <<<<len[1], FMul(len[2], Cos90), FMul(len[3], Cos90)>>,
      <<FZero, FMul(len[2], IntToF(1)),
        FDiv(FMul(len[3], FSub(Cos90, FMul(Cos90, Cos90))), IntToF(1))>>,
      <<FZero, FZero, len[3]>>>>

\* DensityHeader.__init__: the header object, or the exception raised
HeaderInit(f) ==
    LET xyzInterval == f.nint
        xyzLength   == f.len
        zeroDiv     == \E i \in 1..3 : xyzInterval[i] = 0
        gridLength  == [i \in 1..3 |-> FDiv(xyzLength[i], IntToF(xyzInterval[i]))]
        k0 == f.c2x[1] - 1
        k1 == f.c2x[2] - 1
        k2 == f.c2x[3] - 1
        badIdx  == ~PyInRange(3, k0) \/ ~PyInRange(3, k1) \/ ~PyInRange(3, k2)
        indices == PySet(PySet(PySet(<<0, 0, 0>>, k0, 0), k1, 1), k2, 2)
        map2xyz == indices
        map2crs == <<k0, k1, k2>>
        vol == FMul(FDiv(FDiv(FDiv(FMul(FMul(f.len[1], f.len[2]), f.len[3]),
                                   IntToF(f.nint[1])), IntToF(f.nint[2])), IntToF(f.nint[3])),
                    IntToF(1))
        frac(i) == FDiv(IntToF(f.crsStart[map2xyz[i] + 1]), IntToF(f.nint[i]))
        mat == OrthoMat(f.len)
        origin == IF f.futureUse THEN f.originEM
                  ELSE [i \in 1..3 |->
                          FAdd(FAdd(FMul(mat[i][1], frac(1)), FMul(mat[i][2], frac(2))),
                               FMul(mat[i][3], frac(3)))]
    IN  IF zeroDiv THEN [err |-> "ZeroDivisionError", h |-> NoHeader]
        ELSE IF badIdx THEN [err |-> "IndexError", h |-> NoHeader]
        ELSE [err |-> "none",
              h |-> [ncrs |-> f.ncrs, crsStart |-> f.crsStart,
                     nintervalX |-> f.nint[1], nintervalY |-> f.nint[2],
                     nintervalZ |-> f.nint[3], nintervaLZ |-> Unset,
                     xlength |-> f.len[1], ylength |-> f.len[2], zlength |-> f.len[3],
                     col2xyz |-> f.c2x[1], row2xyz |-> f.c2x[2], sec2xyz |-> f.c2x[3],
                     symmetryBytes |-> f.symmetryBytes,
                     mapSize |-> f.ncrs[1] * f.ncrs[2] * f.ncrs[3] * 4,
                     xyzInterval |-> xyzInterval, xyzLength |-> xyzLength,
                     gridLength |-> gridLength,
                     map2xyz |-> map2xyz, map2crs |-> map2crs,
                     unitVolume |-> vol, origin |-> origin]]

\* DensityHeader.fromFileHeader: struct.unpack needs the 224 bytes of the fields
HeaderBytes == 224

FromFileHeader(f) ==
    IF f.hdrLen < HeaderBytes THEN [err |-> "struct.error", h |-> NoHeader]
    ELSE HeaderInit(f)

(***************************************************************************)
(* parse and DensityMatrix.__init__.                                       *)
(***************************************************************************)
NoDensity == [none |-> TRUE]

\* numpy's reshape(ncrs[2], ncrs[1], ncrs[0]) of the 1-d density list
Reshape(densities, ncrs) ==
    [ix \in (0..(ncrs[3] - 1)) \X (0..(ncrs[2] - 1)) \X (0..(ncrs[1] - 1)) |->
        densities[(ix[1] * ncrs[2] + ix[2]) * ncrs[1] + ix[3] + 1]]

\* the interval fix of parse, lines 53-61, with Python's precedence:
\* a == 0 & b > 0 is the chain a == (0 & b) > 0
FixIntervals(h) ==
    LET fx == h.nintervalX = BitAnd(0, h.ncrs[1]) /\ BitAnd(0, h.ncrs[1]) > 0
        fy == h.nintervalY = BitAnd(0, h.ncrs[2]) /\ BitAnd(0, h.ncrs[2]) > 0
        fz == h.nintervalZ = BitAnd(0, h.ncrs[3]) /\ BitAnd(0, h.ncrs[3]) > 0
    IN  [h EXCEPT !.nintervalX = IF fx THEN h.ncrs[1] - 1 ELSE @,
                  !.nintervalY = IF fy THEN h.ncrs[2] - 1 ELSE @,
                  !.nintervaLZ = IF fz THEN h.ncrs[3] - 1 ELSE @]

\* the condition of line 63: col2xyz == 0 & row2xyz == 0 & sec2xyz == 0 is the
\* chain col2xyz == (0 & row2xyz) == (0 & sec2xyz) == 0
AxesAllZero(h) ==
    /\ h.col2xyz = BitAnd(0, h.row2xyz)
    /\ BitAnd(0, h.row2xyz) = BitAnd(0, h.sec2xyz)
    /\ BitAnd(0, h.sec2xyz) = 0

\* the axis fix of parse, lines 63-67
FixAxes(h) ==
    IF AxesAllZero(h)
    THEN [h EXCEPT !.col2xyz = 1, !.row2xyz = 2, !.sec2xyz = 3]
    ELSE h

\* the size checks of parse, lines 44-49: the assertion that fails, or "none"
SizeCheck(h, len) ==
    IF len # h.symmetryBytes + h.mapSize
    THEN IF ~(h.symmetryBytes = BitOr(0, len) /\ BitOr(0, len) # h.mapSize)
         THEN "AssertionError: suspicious symmetry records"
         ELSE IF ~(h.mapSize = BitOr(0, len) /\ BitOr(0, len) # h.symmetryBytes)
         THEN "AssertionError: no map data"
         ELSE IF ~(len > h.symmetryBytes + h.mapSize)
         THEN "AssertionError: incomplete data"
         ELSE IF ~(len < h.symmetryBytes + h.mapSize)
         THEN "AssertionError: larger than expected data"
         ELSE "none"
    ELSE "none"

\* a cell check that rejects a file as soon as one edge length is zero
CellCheckEvery(h) ==
    IF h.xlength # FZero /\ h.ylength # FZero /\ h.zlength # FZero
    THEN "none"
    ELSE "AssertionError: cell dimensions are all 0"

\* the cell check of parse, line 51
CellCheck(h) ==
    IF h.xlength # FZero \/ h.ylength # FZero \/ h.zlength # FZero
    THEN "none"
    ELSE "AssertionError: cell dimensions are all 0"

NoGrid(e) == [err |-> e, header |-> NoHeader, density |-> NoDensity]

\* a reader without the size checks that takes the first voxels of the data and
\* ignores what follows them
ParseBodyLenient(f, h0) ==
    IF CellCheck(h0) # "none" THEN NoGrid(CellCheck(h0))
    ELSE With(FixAxes(FixIntervals(h0)), LAMBDA h :
            IF Len(f.voxels) < h.ncrs[1] * h.ncrs[2] * h.ncrs[3]
            THEN NoGrid("ValueError")
            ELSE [err |-> "none", header |-> h, density |-> Reshape(f.voxels, h.ncrs)])

\* parse: the DensityMatrix returned, or the exception raised
\* lines 42-83 of parse, once the header is decoded; numpy's reshape (line 281)
\* raises ValueError when the number of floats is not the product of ncrs
ParseBody(f, h0) ==
    IF SizeCheck(h0, f.dataLen) # "none" THEN NoGrid(SizeCheck(h0, f.dataLen))
    ELSE IF CellCheck(h0) # "none" THEN NoGrid(CellCheck(h0))
    ELSE With(FixAxes(FixIntervals(h0)), LAMBDA h :
            With(SubSeq(f.voxels, 1, (f.dataLen - h.symmetryBytes) \div 4), LAMBDA densities :
                IF Len(densities) # h.ncrs[1] * h.ncrs[2] * h.ncrs[3]
                THEN NoGrid("ValueError")
                ELSE [err |-> "none", header |-> h,
                      density |-> Reshape(densities, h.ncrs)]))

Parse(f) ==
    With(FromFileHeader(f), LAMBDA hr :
        IF hr.err # "none" THEN NoGrid(hr.err) ELSE ParseBody(f, hr.h))

(***************************************************************************)
(* Coordinate conversions.  A crs coordinate is a list in the order of the  *)
(* 3-d density array: (section, row, column).                               *)
(***************************************************************************)
\* DensityHeader.xyz2crsCoord: int() of a float truncates toward zero
xyz2crsCoord(h, xyzCoord) ==
    LET crsGridPos == [i \in 1..3 |->
            FTrunc(FDiv(FSub(xyzCoord[i], h.origin[i]), h.gridLength[i]))]
    IN  <<PyGet(crsGridPos, h.map2crs[3]), PyGet(crsGridPos, h.map2crs[2]),
          PyGet(crsGridPos, h.map2crs[1])>>

\* DensityHeader.crs2xyzCoord of a list of ints
crs2xyzCoord(h, crsCoord) ==
    LET crsGridPos == <<crsCoord[3], crsCoord[2], crsCoord[1]>>
    IN  [i \in 1..3 |->
            FAdd(FMul(IntToF(crsGridPos[h.map2xyz[i] + 1]), h.gridLength[i]),
                 h.origin[i])]

(***************************************************************************)
(* Density lookups.  validCRS works on the caller's list and changes it in  *)
(* place: an outcome carries the list as the call leaves it.                *)
(***************************************************************************)
\* the test of line 295 that sends an index to the periodic reduction
NeedsReduction(c, n) == c < 0 \/ c > n

\* lines 296-297: n = np.floor(c / crsInterval); c -= int(n * crsInterval)
Reduce(c, crsInterval) ==
    c - FTrunc(FMul(IntToF(FFloor(FDiv(IntToF(c), IntToF(crsInterval)))),
                    IntToF(crsInterval)))

\* the test of line 300 that declares the index to hold no data
NoData(c, n, crsInterval) == n < c /\ c < crsInterval

\* DensityMatrix.validCRS from axis ind (0-based) on
RECURSIVE ValidFrom(_, _, _)
ValidFrom(h, crsCoord, ind) ==
    IF ind > 2 THEN [err |-> "none", ok |-> TRUE, crs |-> crsCoord]
    ELSE LET crsInterval == PyGet(h.xyzInterval, h.map2crs[ind + 1])
             c0   == crsCoord[ind + 1]
             red  == NeedsReduction(c0, h.ncrs[ind + 1])
         IN  IF red /\ crsInterval = 0
             THEN [err |-> "ZeroDivisionError", ok |-> FALSE, crs |-> crsCoord]
             ELSE With(IF red THEN Reduce(c0, crsInterval) ELSE c0, LAMBDA c1 :
                    IF NoData(c1, h.ncrs[ind + 1], crsInterval)
                    THEN [err |-> "none", ok |-> FALSE,
                          crs |-> [crsCoord EXCEPT ![ind + 1] = c1]]
                    ELSE ValidFrom(h, [crsCoord EXCEPT ![ind + 1] = c1], ind + 1))

validCRS(h, crsCoord) == ValidFrom(h, crsCoord, 0)

\* numpy's density[i0, i1, i2] exists: each index, wrapped if negative, is in range
NpInRange(h, crs) ==
    /\ PyInRange(h.ncrs[3], crs[1])
    /\ PyInRange(h.ncrs[2], crs[2])
    /\ PyInRange(h.ncrs[1], crs[3])

NpGet(g, crs) ==
    g.density[<<PyIdx(g.header.ncrs[3], crs[1]), PyIdx(g.header.ncrs[2], crs[2]),
                PyIdx(g.header.ncrs[1], crs[3])>>]

\* DensityMatrix.getPointDensityFromCrs: the value returned or the exception
\* raised, and the caller's list after the call; np tells a numpy float read from
\* the array from the int 0 of line 310
getPointDensityFromCrs(g, crsCoord) ==
    With(validCRS(g.header, crsCoord), LAMBDA v :
        IF v.err # "none" THEN [err |-> v.err, val |-> 0, crs |-> v.crs, np |-> FALSE]
        ELSE IF ~v.ok THEN [err |-> "none", val |-> 0, crs |-> v.crs, np |-> FALSE]
        ELSE IF ~NpInRange(g.header, v.crs)
        THEN [err |-> "IndexError", val |-> 0, crs |-> v.crs, np |-> FALSE]
        ELSE [err |-> "none", val |-> NpGet(g, v.crs), crs |-> v.crs, np |-> TRUE])

(***************************************************************************)
(* The sphere query.                                                       *)
(***************************************************************************)
\* line 346: cInd ** 2 / crsRadius[0] ** 2 + ... < 1, in floats
InEllipsoid(off, crsRadius) ==
    LET t(i) == FDiv(IntToF(off[i] * off[i]), IntToF(crsRadius[i] * crsRadius[i]))
    IN  FLess(FAdd(FAdd(t(1), t(2)), t(3)), IntToF(1))

\* the k-th (0-based) offset [cInd, rInd, sInd] of the three nested loops
LoopOffset(crsRadius, k) ==
    LET n2 == 2 * crsRadius[2] + 1
        n3 == 2 * crsRadius[3] + 1
    IN  <<(k \div (n2 * n3)) - crsRadius[1],
          ((k \div n3) % n2) - crsRadius[2],
          (k % n3) - crsRadius[3]>>

LoopCount(crsRadius) ==
    (2 * crsRadius[1] + 1) * (2 * crsRadius[2] + 1) * (2 * crsRadius[3] + 1)

\* line 349 without its third disjunct, densityCutoff == 0
KeepCellNoZero(g, crs, densityCutoff) ==
    With(getPointDensityFromCrs(g, crs), LAMBDA d :
        [err |-> d.err,
         keep |-> /\ d.err = "none"
                  /\ \/ (0 < densityCutoff /\ densityCutoff < d.val)
                     \/ (d.val < densityCutoff /\ densityCutoff < 0),
         crs |-> d.crs])

\* line 349 for one cell: whether it is kept, and the list as the lookups leave it.
\* 0 < cutoff < f(crs) looks the density up only when 0 < cutoff; f(crs) < cutoff < 0
\* always looks it up.
KeepCell(g, crs, densityCutoff) ==
    IF 0 < densityCutoff
    THEN With(getPointDensityFromCrs(g, crs), LAMBDA d1 :
            IF d1.err # "none" THEN [err |-> d1.err, keep |-> FALSE, crs |-> d1.crs]
            ELSE IF densityCutoff < d1.val
            THEN [err |-> "none", keep |-> TRUE, crs |-> d1.crs]
            ELSE With(getPointDensityFromCrs(g, d1.crs), LAMBDA d2 :
                    [err |-> d2.err,
                     keep |-> d2.err = "none" /\ d2.val < densityCutoff /\ densityCutoff < 0,
                     crs |-> d2.crs]))
    ELSE With(getPointDensityFromCrs(g, crs), LAMBDA d2 :
            [err |-> d2.err,
             keep |-> /\ d2.err = "none"
                      /\ ((d2.val < densityCutoff /\ densityCutoff < 0) \/ densityCutoff = 0),
             crs |-> d2.crs])

\* lines 343-350: the three loops.  Every cell gets a list of its own, so the cells'
\* outcomes do not depend on each other; the first exception ends the query.
SphereLoops(g, crsCoord, crsRadius, densityCutoff) ==
    With([k \in 1..LoopCount(crsRadius) |->
            IF InEllipsoid(LoopOffset(crsRadius, k - 1), crsRadius)
            THEN KeepCell(g, [i \in 1..3 |-> crsCoord[i] + LoopOffset(crsRadius, k - 1)[i]],
                          densityCutoff)
            ELSE [err |-> "none", keep |-> FALSE, crs |-> <<>>]],
         LAMBDA cells :
            LET failed == {k \in 1..Len(cells) : cells[k].err # "none"}
                kept   == SelectSeq(cells, LAMBDA o : o.keep)
            IN  IF failed # {}
                THEN [err |-> cells[CHOOSE k \in failed : \A j \in failed : k <= j].err,
                      list |-> <<>>]
                ELSE [err |-> "none", list |-> [i \in 1..Len(kept) |-> kept[i].crs]])

\* lines 336-337: the radius in grid cells along column, row and section
SphereRadius(h, radius) ==
    LET xyzRadius == [i \in 1..3 |-> FCeil(FDiv(radius, h.gridLength[i]))]
    IN  <<PyGet(xyzRadius, h.map2crs[1]), PyGet(xyzRadius, h.map2crs[2]),
          PyGet(xyzRadius, h.map2crs[3])>>

\* DensityMatrix.getSphereCrsFromXyz: the list returned, or the exception raised
getSphereCrsFromXyz(g, xyzCoord, radius, densityCutoff) ==
    With(<<xyz2crsCoord(g.header, xyzCoord), SphereRadius(g.header, radius)>>, LAMBDA cr :
        IF \E i \in 1..3 : cr[2][i] = 0
        THEN [err |-> "ZeroDivisionError", list |-> <<>>]
        ELSE SphereLoops(g, cr[1], cr[2], densityCutoff))

\* DensityHeader.crs2xyzCoord of a list of floats (the centroid of a blob)
crs2xyzCoordOfFloats(h, crsCoord) ==
    LET crsGridPos == <<crsCoord[3], crsCoord[2], crsCoord[1]>>
    IN  [i \in 1..3 |->
            FAdd(FMul(IntToF(FTrunc(crsGridPos[h.map2xyz[i] + 1])), h.gridLength[i]),
                 h.origin[i])]

(***************************************************************************)
(* The clustering of findAberrantBlubs, lines 389-407.                      *)
(***************************************************************************)
\* the test of line 399 with the axes' differences summed: 6-connectivity
AdjacentFaces(crsCoordList, x, y) ==
    Abs(crsCoordList[y + 1][1] - crsCoordList[x + 1][1])
    + Abs(crsCoordList[y + 1][2] - crsCoordList[x + 1][2])
    + Abs(crsCoordList[y + 1][3] - crsCoordList[x + 1][3]) <= 1

\* the test of line 399 on two candidates (0-based positions x and y)
Adjacent(crsCoordList, x, y) ==
    \A i \in 1..3 :
        /\ -1 <= crsCoordList[y + 1][i] - crsCoordList[x + 1][i]
        /\ crsCoordList[y + 1][i] - crsCoordList[x + 1][i] <= 1

\* line 399: the candidates adjacent to a member of diffSet
AdjacentSet(crsCoordList, diffSet) ==
    {x \in 0..(Len(crsCoordList) - 1) : \E y \in diffSet : Adjacent(crsCoordList, x, y)}

\* the sum of f over a set of candidates
RECURSIVE SumOver(_, _)
SumOver(S, f) ==
    IF S = {} THEN 0
    ELSE LET x == CHOOSE y \in S : \A z \in S : y <= z
         IN  f[x] + SumOver(S \ {x}, f)

\* lines 427-429 when totalDensity is zero.  Sums of ints divide with
\* ZeroDivisionError; with a numpy float among the densities weight / totalDensity
\* is nan (weight zero) or infinite, and the first int() of crs2xyzCoord (line 270,
\* i = 0) raises ValueError or OverflowError.
ZeroTotalError(g, adjacentSet, looked) ==
    IF \A x \in adjacentSet : ~looked[x].np
    THEN "ZeroDivisionError"
    ELSE IF SumOver(adjacentSet,
                    [x \in adjacentSet |->
                        looked[x].val * looked[x].crs[3 - g.header.map2xyz[1]]]) = 0
    THEN "ValueError"
    ELSE "OverflowError"

\* the blob record with the volume of one voxel, whatever the number of members
BlobFromOneVoxel(g, adjacentSet, looked, totalDensity) ==
    IF totalDensity = 0
    THEN [err |-> ZeroTotalError(g, adjacentSet, looked)]
    ELSE [err |-> "none",
          centroid |-> crs2xyzCoordOfFloats(g.header,
              [i \in 1..3 |->
                  FDiv(IntToF(SumOver(adjacentSet,
                                      [x \in adjacentSet |-> looked[x].val * looked[x].crs[i]])),
                       IntToF(totalDensity))]),
          total_density |-> totalDensity,
          volume |-> g.header.unitVolume]

\* lines 413-429 for one adjacentSet: the blob, or the exception raised.  A lookup
\* leaves its list normalised, and point[i] is read after the lookup.
BlobFrom(g, adjacentSet, looked, totalDensity) ==
    IF totalDensity = 0
    THEN [err |-> ZeroTotalError(g, adjacentSet, looked)]
    ELSE [err |-> "none",
          centroid |-> crs2xyzCoordOfFloats(g.header,
              [i \in 1..3 |->
                  FDiv(IntToF(SumOver(adjacentSet,
                                      [x \in adjacentSet |-> looked[x].val * looked[x].crs[i]])),
                       IntToF(totalDensity))]),
          total_density |-> totalDensity,
          volume |-> FMul(g.header.unitVolume, IntToF(Cardinality(adjacentSet)))]

BlobOf(g, list, adjacentSet) ==
    With([x \in adjacentSet |-> getPointDensityFromCrs(g, list[x + 1])], LAMBDA looked :
        LET failed == {x \in adjacentSet : looked[x].err # "none"}
        IN  IF failed # {}
            THEN [err |-> looked[CHOOSE x \in failed : \A y \in failed : x <= y].err]
            ELSE BlobFrom(g, adjacentSet, looked,
                            SumOver(adjacentSet, [x \in adjacentSet |-> looked[x].val])))

\* lines 411-431: the blobs, or the first exception raised
Blobs(g, list, sets) ==
    With([k \in 1..Len(sets) |-> BlobOf(g, list, sets[k])], LAMBDA each :
        LET failed == {k \in 1..Len(sets) : each[k].err # "none"}
        IN  IF failed # {}
            THEN [err |-> each[CHOOSE k \in failed : \A j \in failed : k <= j].err,
                  blobs |-> <<>>]
            ELSE [err |-> "none", blobs |-> each])

(***************************************************************************)
(* State.                                                                  *)
(*   file          the file handed to parse                                 *)
(*   grid          what parse returned: a DensityMatrix, or the exception   *)
(*   pc            where the program is: idle, returned (a call's outcome   *)
(*                 is in `call`), or inside findAberrantBlubs               *)
(*   call          the last call: its name, arguments and outcome; for a    *)
(*                 call of DensityAnalysis in progress, its locals too      *)
(*   crsCoordList, ind, usedIndex, oldSet, newSet, adjSetList               *)
(*                 the locals of findAberrantBlubs                          *)
(***************************************************************************)
VARIABLES file, grid, pc, call, crsCoordList, ind, usedIndex, oldSet, newSet, adjSetList

vars == <<file, grid, pc, call, crsCoordList, ind, usedIndex, oldSet, newSet, adjSetList>>

locals == <<crsCoordList, ind, usedIndex, oldSet, newSet, adjSetList>>

NoCall == [op |-> "none"]

NoFile == [none |-> TRUE]

NoLocals ==
    /\ crsCoordList = <<>>
    /\ ind = 0
    /\ usedIndex = {}
    /\ oldSet = {}
    /\ newSet = {}
    /\ adjSetList = <<>>

(***************************************************************************)
(* Inputs.                                                                 *)
(***************************************************************************)
\* lookups take indices 3 - MaxIdx .. MaxIdx on each axis
MaxIdx == 4

\* Cartesian inputs are the multiples of 1/2 from -XyzMax / 2 to XyzMax / 2
XyzMax == 3

CrsVals == (3 - MaxIdx)..MaxIdx

XyzVals == {FRound(n, -1) : n \in (-XyzMax)..XyzMax}

Triples(S) == {<<a, b, c>> : a \in S, b \in S, c \in S}

\* the centres, radii and cutoffs of the sphere and blob queries
SphereCentres == Triples({FRound(1, -1), FRound(3, -1)})

SphereRadii == {IntToF(1), IntToF(2)}

Cutoffs == {0, 5, -5}

Floats3(t) == [i \in 1..3 |-> IntToF(t[i])]

\* voxel values of a file of n floats: all 1, but 9 at position hot and -9 at cold
Voxels(n, hot, cold) ==
    [k \in 1..n |-> IF k - 1 = hot THEN 9 ELSE IF k - 1 = cold THEN -9 ELSE 1]

\* a well-formed file: 1024 header bytes, no symmetry records, the voxels declared
GoodFile(ncrs, nint, len, c2x, crsStart, hot, cold) ==
    [hdrLen |-> 1024, ncrs |-> ncrs, crsStart |-> crsStart, nint |-> nint,
     len |-> Floats3(len), c2x |-> c2x, futureUse |-> FALSE,
     originEM |-> Floats3(<<0, 0, 0>>), symmetryBytes |-> 0,
     dataLen |-> 4 * ncrs[1] * ncrs[2] * ncrs[3],
     voxels |-> Voxels(ncrs[1] * ncrs[2] * ncrs[3], hot, cold)]

\* a 2 x 2 x 2 grid of spacing 1 that repeats after 2 cells, with densities
\* 1, 1, 1, 1, 1, 1, 1, 9 in file order
UnitSpacingFile ==
    GoodFile(<<2, 2, 2>>, <<2, 2, 2>>, <<2, 2, 2>>, <<1, 2, 3>>, <<0, 0, 0>>, 7, -1)

\* a 2 x 2 x 2 grid of spacing 2 whose first voxel has density 0
ZeroVoxelFile ==
    [GoodFile(<<2, 2, 2>>, <<2, 2, 2>>, <<4, 4, 4>>, <<1, 2, 3>>, <<0, 0, 0>>, 7, -1)
        EXCEPT !.voxels = [@ EXCEPT ![1] = 0]]

GridFiles ==
    {GoodFile(ncrs, nint, len, c2x, crsStart, hc[1], hc[2]) :
        ncrs \in {<<2, 2, 2>>, <<3, 2, 2>>},
        nint \in {<<2, 2, 2>>, <<3, 4, 4>>},
        len \in {<<4, 4, 4>>, <<10, 10, 10>>},
        c2x \in {<<1, 2, 3>>, <<3, 1, 2>>},
        crsStart \in {<<0, 0, 0>>, <<1, 0, 0>>},
        hc \in {<<7, 0>>}}
    \cup {GoodFile(<<3, 3, 3>>, <<3, 3, 3>>, <<3, 3, 3>>, c2x, <<0, 0, 0>>, 13, 0) :
            c2x \in {<<1, 2, 3>>, <<3, 1, 2>>}}
    \cup {UnitSpacingFile, ZeroVoxelFile}

(***************************************************************************)
(* Calls on a grid.  Each runs to its end in one step and leaves its        *)
(* outcome in `call`; Return forgets it.                                    *)
(***************************************************************************)
Lookup(c) ==
    /\ pc = "idle"
    /\ \E d \in {getPointDensityFromCrs(grid, c)} :
           call' = [op |-> "getPointDensityFromCrs", arg |-> c,
                    err |-> d.err, val |-> d.val, crs |-> d.crs]
    /\ pc' = "returned"
    /\ UNCHANGED <<file, grid, locals>>

Xyz2Crs(x) ==
    /\ pc = "idle"
    /\ call' = [op |-> "xyz2crsCoord", arg |-> x, res |-> xyz2crsCoord(grid.header, x),
                of |-> <<>>]
    /\ pc' = "returned"
    /\ UNCHANGED <<file, grid, locals>>

Crs2Xyz(c) ==
    /\ pc = "idle"
    /\ call' = [op |-> "crs2xyzCoord", arg |-> c, res |-> crs2xyzCoord(grid.header, c)]
    /\ pc' = "returned"
    /\ UNCHANGED <<file, grid, locals>>

\* xyz2crsCoord of the coordinate crs2xyzCoord has just returned
Xyz2CrsBack ==
    /\ pc = "returned"
    /\ call.op = "crs2xyzCoord"
    /\ call' = [op |-> "xyz2crsCoord", arg |-> call.res,
                res |-> xyz2crsCoord(grid.header, call.res), of |-> call.arg]
    /\ UNCHANGED <<file, grid, pc, locals>>

Sphere(x, radius, densityCutoff) ==
    /\ pc = "idle"
    /\ \E r \in {getSphereCrsFromXyz(grid, x, radius, densityCutoff)} :
           call' = [op |-> "getSphereCrsFromXyz", xyz |-> x, radius |-> radius,
                    cutoff |-> densityCutoff, err |-> r.err, list |-> r.list]
    /\ pc' = "returned"
    /\ UNCHANGED <<file, grid, locals>>

\* findAberrantBlubs, line 387: the sphere query
FindStart(x, radius, densityCutoff) ==
    /\ pc = "idle"
    /\ \E r \in {getSphereCrsFromXyz(grid, x, radius, densityCutoff)} :
           IF r.err # "none"
           THEN /\ call' = [op |-> "findAberrantBlubs", err |-> r.err, blobs |-> <<>>]
                /\ pc' = "returned"
                /\ UNCHANGED locals
           ELSE /\ call' = [op |-> "findAberrantBlubs", xyz |-> x, radius |-> radius,
                            cutoff |-> densityCutoff]
                /\ crsCoordList' = r.list
                /\ adjSetList' = <<>>
                /\ usedIndex' = {}
                /\ ind' = 0
                /\ oldSet' = {}
                /\ newSet' = {}
                /\ pc' = "outer"
    /\ UNCHANGED <<file, grid>>

\* lines 391-396: the next candidate of the for loop
OuterStep ==
    /\ pc = "outer"
    /\ IF ind >= Len(crsCoordList)
       THEN /\ pc' = "blobs"
            /\ UNCHANGED <<ind, oldSet, newSet>>
       ELSE IF ind \in usedIndex
       THEN /\ ind' = ind + 1
            /\ UNCHANGED <<pc, oldSet, newSet>>
       ELSE /\ oldSet' = {}
            /\ newSet' = {ind}
            /\ pc' = "inner"
            /\ UNCHANGED ind
    /\ UNCHANGED <<file, grid, call, crsCoordList, usedIndex, adjSetList>>

\* a while loop without the test of line 404: it never breaks
InnerStepNoBreak ==
    /\ pc = "inner"
    /\ oldSet' = newSet
    /\ newSet' = newSet \cup AdjacentSet(crsCoordList, newSet \ oldSet)
    /\ UNCHANGED <<file, grid, call, crsCoordList, usedIndex, adjSetList, ind, pc>>

\* lines 397-407: one round of the while loop, and what follows its break
InnerStep ==
    /\ pc = "inner"
    /\ LET diffSet     == newSet \ oldSet
           adjacentSet == AdjacentSet(crsCoordList, diffSet)
           grown       == newSet \cup adjacentSet
       IN  /\ oldSet' = newSet
           /\ newSet' = grown
           /\ IF newSet = grown
              THEN /\ usedIndex' = usedIndex \cup grown
                   /\ adjSetList' = Append(adjSetList, grown)
                   /\ ind' = ind + 1
                   /\ pc' = "outer"
              ELSE UNCHANGED <<usedIndex, adjSetList, ind, pc>>
    /\ UNCHANGED <<file, grid, call, crsCoordList>>

\* lines 411-431: the statistics of the blobs
BlobStats ==
    /\ pc = "blobs"
    /\ grid.err = "none"
    /\ \E b \in {Blobs(grid, crsCoordList, adjSetList)} :
           call' = [call EXCEPT !.op = "findAberrantBlubs"] @@
                   [err |-> b.err, blobs |-> b.blobs, list |-> crsCoordList,
                    sets |-> adjSetList]
    /\ pc' = "returned"
    /\ crsCoordList' = <<>>
    /\ ind' = 0
    /\ usedIndex' = {}
    /\ oldSet' = {}
    /\ newSet' = {}
    /\ adjSetList' = <<>>
    /\ UNCHANGED <<file, grid>>

Return ==
    /\ pc = "returned"
    /\ pc' = "idle"
    /\ call' = NoCall
    /\ UNCHANGED <<file, grid, locals>>

Init ==
    /\ file \in GridFiles
    /\ grid = Parse(file)
    /\ grid.err = "none"
    /\ pc = "idle"
    /\ call = NoCall
    /\ NoLocals

Next ==
    \/ \E c \in Triples(CrsVals) : Lookup(c)
    \/ \E x \in Triples(XyzVals) : Xyz2Crs(x)
    \/ \E c \in Triples(CrsVals) : Crs2Xyz(c)
    \/ Xyz2CrsBack
    \/ \E x \in SphereCentres, radius \in SphereRadii, densityCutoff \in Cutoffs :
          Sphere(x, radius, densityCutoff)
    \/ \E x \in SphereCentres, radius \in SphereRadii, densityCutoff \in Cutoffs :
          FindStart(x, radius, densityCutoff)
    \/ OuterStep
    \/ InnerStep
    \/ BlobStats
    \/ Return

Spec == Init /\ [][Next]_vars

(***************************************************************************)
(* parse on its own: files with zero interval counts, zero or partly zero   *)
(* axis triples, zero cell lengths, short headers and sizes that do not     *)
(* match the header.                                                        *)
(***************************************************************************)
\* a file whose voxels follow sym bytes of symmetry records, with extra bytes more
\* (or fewer) than the header declares; a file that ends before byte 1024 has no data
FileOf(hdrLen, ncrs, nint, len, c2x, sym, extra) ==
    [GoodFile(ncrs, nint, len, c2x, <<0, 0, 0>>, 7, 0) EXCEPT
        !.hdrLen = hdrLen,
        !.symmetryBytes = sym,
        !.dataLen = IF hdrLen < 1024 THEN 0
                    ELSE sym + 4 * ncrs[1] * ncrs[2] * ncrs[3] + extra,
        !.voxels = IF hdrLen < 1024 THEN <<>>
                   ELSE Voxels(ncrs[1] * ncrs[2] * ncrs[3] + (extra \div 4), 7, 0)]

ParseFiles ==
    {FileOf(hdrLen, ncrs, nint, len, c2x, sym, extra) :
        hdrLen \in {1024, 1023, 500, 224, 223, 100, 0},
        ncrs \in {<<2, 2, 2>>, <<3, 2, 2>>},
        nint \in {<<2, 2, 2>>, <<3, 4, 4>>, <<0, 2, 2>>, <<2, 0, 2>>, <<2, 2, 0>>, <<0, 0, 0>>},
        len \in {<<4, 4, 4>>, <<0, 4, 4>>, <<0, 0, 0>>},
        c2x \in {<<1, 2, 3>>, <<3, 1, 2>>, <<0, 0, 0>>, <<0, 2, 3>>, <<0, 3, 2>>,
                 <<1, 0, 0>>, <<1, 2, 4>>},
        sym \in {0, 80},
        extra \in {0, 4, -4}}

Unparsed == NoGrid("unparsed")

InitParse ==
    /\ file \in ParseFiles
    /\ grid = Unparsed
    /\ pc = "file"
    /\ call = NoCall
    /\ NoLocals

\* parse(handle)
ParseFile ==
    /\ pc = "file"
    /\ grid' = Parse(file)
    /\ pc' = "parsed"
    /\ UNCHANGED <<file, call, locals>>

\* DensityHeader.fromFileHeader(fileHeader) on the first 1024 bytes of the file
DecodeHeader ==
    /\ call = NoCall
    /\ \E d \in {FromFileHeader(file)} :
          call' = [op |-> "fromFileHeader", err |-> d.err, h |-> d.h]
    /\ UNCHANGED <<file, grid, pc, locals>>

NextParse ==
    \/ ParseFile
    \/ DecodeHeader

SpecParse == InitParse /\ [][NextParse]_vars

(***************************************************************************)
(* findAberrantBlubs from line 389 on, for any candidate list the sphere    *)
(* query may have returned.                                                 *)
(***************************************************************************)
\* candidate lists hold at most MaxCand coordinates
MaxCand == 3

\* a candidate's section index is in 0 .. CoordMax; its row and column are 0 or 1
CoordMax == 2

CandCoords == {<<a, b, c>> : a \in 0..CoordMax, b \in 0..1, c \in 0..1}

CandLists == UNION {[1..n -> CandCoords] : n \in 0..MaxCand}

ClusterFile == GoodFile(<<2, 2, 2>>, <<3, 4, 4>>, <<4, 4, 4>>, <<1, 2, 3>>, <<0, 0, 0>>, 7, 0)

InitCluster ==
    /\ file = ClusterFile
    /\ grid = Parse(file)
    /\ pc = "outer"
    /\ call = [op |-> "findAberrantBlubs"]
    /\ crsCoordList \in CandLists
    /\ ind = 0
    /\ usedIndex = {}
    /\ oldSet = {}
    /\ newSet = {}
    /\ adjSetList = <<>>

NextCluster ==
    \/ OuterStep
    \/ InnerStep
    \/ BlobStats

SpecCluster == InitCluster /\ [][NextCluster]_vars

\* findAberrantBlubs is one thread of straight-line code: while a step of its two
\* clustering loops is possible, the interpreter takes it
SpecClusterLive ==
    InitCluster /\ [][NextCluster]_vars /\ WF_vars(OuterStep) /\ WF_vars(InnerStep)

(***************************************************************************)
(* DensityAnalysis._calcSymmetryAtoms.  The call in progress is in `call`:  *)
(* the atoms of the structure (their coordinates), the rotation matrices of *)
(* the PDB header, the loop indices i, j, k, r and the list allAtoms.  An   *)
(* entry of allAtoms is [coord, symmetry, atom, wrapped]: atom is the       *)
(* position of the source atom, wrapped tells a symAtom from the source     *)
(* atom itself.                                                            *)
(***************************************************************************)
\* the margin of line 534
Margin == 5

Dot3(row, v) == FAdd(FAdd(FMul(row[1], v[1]), FMul(row[2], v[2])), FMul(row[3], v[3]))

\* line 525: np.dot(orthoMat, [i, j, k])
OtMat(f, ijk) == [t \in 1..3 |-> Dot3(OrthoMat(f.len)[t], Floats3(ijk))]

\* line 528: np.dot(rMat[:, 0:3], coord) + rMat[:, 3] + otMat
SymCoord(rMat, otMat, coord) ==
    [t \in 1..3 |-> FAdd(FAdd(Dot3(rMat[t], coord), rMat[t][4]), otMat[t])]

\* line 511: the Cartesian corners of the stored grid
OrginalDensityBox(h) ==
    {crs2xyzCoord(h, <<c, r, s>>) :
        c \in {0, h.ncrs[1] - 1}, r \in {0, h.ncrs[2] - 1}, s \in {0, h.ncrs[3] - 1}}

\* lines 512-514: the first and the last of the sorted coordinates of axis t
BoxFirst(h, t) ==
    CHOOSE v \in {p[t] : p \in OrginalDensityBox(h)} :
        \A w \in {p[t] : p \in OrginalDensityBox(h)} : ~FLess(w, v)

BoxLast(h, t) ==
    CHOOSE v \in {p[t] : p \in OrginalDensityBox(h)} :
        \A w \in {p[t] : p \in OrginalDensityBox(h)} : ~FLess(v, w)

\* the test of line 534
InRange(h, coord) ==
    \A t \in 1..3 :
        /\ ~FLess(coord[t], FSub(BoxFirst(h, t), IntToF(Margin)))
        /\ ~FLess(FAdd(BoxLast(h, t), IntToF(Margin)), coord[t])

\* a replication whose first operator at no translation is treated as any other
IsSourceCaseNever(ijk, r) == FALSE

\* the test of line 521
IsSourceCase(ijk, r) == ijk = <<0, 0, 0>> /\ r = 0

\* lines 521-534: inRangeAtoms of one pass, as positions of source atoms and the
\* coordinate each carries
InRangeAtoms(g, f, atoms, rotationMats, ijk, r) ==
    IF IsSourceCase(ijk, r)
    THEN [a \in 1..Len(atoms) |-> [coord |-> atoms[a], atom |-> a, wrapped |-> FALSE]]
    ELSE With([a \in 1..Len(atoms) |->
                  SymCoord(rotationMats[r + 1], OtMat(f, ijk), atoms[a])], LAMBDA moved :
            SelectSeq([a \in 1..Len(atoms) |->
                          [coord |-> moved[a], atom |-> a, wrapped |-> TRUE]],
                      LAMBDA x : InRange(g.header, x.coord)))

\* lines 536-539: the entries one pass adds to allAtoms
TaggedAtoms(inRangeAtoms, ijk, r) ==
    [n \in 1..Len(inRangeAtoms) |->
        [coord |-> inRangeAtoms[n].coord, atom |-> inRangeAtoms[n].atom,
         wrapped |-> inRangeAtoms[n].wrapped, symmetry |-> <<ijk[1], ijk[2], ijk[3], r>>]]

\* the indices of the pass after (ijk, r) in the loops of lines 517-520
NextPass(ijk, r, nOps) ==
    IF r + 1 < nOps THEN [ijk |-> ijk, r |-> r + 1, done |-> FALSE]
    ELSE IF ijk[3] < 1 THEN [ijk |-> <<ijk[1], ijk[2], ijk[3] + 1>>, r |-> 0, done |-> FALSE]
    ELSE IF ijk[2] < 1 THEN [ijk |-> <<ijk[1], ijk[2] + 1, -1>>, r |-> 0, done |-> FALSE]
    ELSE IF ijk[1] < 1 THEN [ijk |-> <<ijk[1] + 1, -1, -1>>, r |-> 0, done |-> FALSE]
    ELSE [ijk |-> ijk, r |-> r, done |-> TRUE]

\* structures hold at most MaxAtoms atoms
MaxAtoms == 2

AtomCoords == {Floats3(<<1, 1, 1>>), Floats3(<<9, 1, 1>>), Floats3(<<-7, 0, 3>>)}

AtomLists == UNION {[1..n -> AtomCoords] : n \in 1..MaxAtoms}

\* rotation matrices: the rows of a 3 x 4 array, rotation and translation
IdentityOp == <<Floats3(<<1, 0, 0>>) \o <<FZero>>, Floats3(<<0, 1, 0>>) \o <<FZero>>,
                Floats3(<<0, 0, 1>>) \o <<FZero>>>>

ScrewOp == <<Floats3(<<-1, 0, 0>>) \o <<FZero>>, Floats3(<<0, -1, 0>>) \o <<FZero>>,
             Floats3(<<0, 0, 1>>) \o <<IntToF(2)>>>>

RotationLists == {<<IdentityOp>>, <<IdentityOp, ScrewOp>>, <<ScrewOp, IdentityOp>>}

SymFile == GoodFile(<<2, 2, 2>>, <<2, 2, 2>>, <<4, 4, 4>>, <<1, 2, 3>>, <<0, 0, 0>>, 7, 0)

InitSym ==
    /\ file = SymFile
    /\ grid = Parse(file)
    /\ pc = "symmetry"
    /\ \E atoms \in AtomLists, rotationMats \in RotationLists :
          call = [op |-> "_calcSymmetryAtoms", atoms |-> atoms,
                  rotationMats |-> rotationMats, ijk |-> <<-1, -1, -1>>, r |-> 0,
                  done |-> FALSE, allAtoms |-> <<>>]
    /\ NoLocals

\* lines 520-539: one pass of the innermost loop
SymPass ==
    /\ pc = "symmetry"
    /\ ~call.done
    /\ \E found \in {InRangeAtoms(grid, file, call.atoms, call.rotationMats, call.ijk, call.r)} :
       \E nxt \in {NextPass(call.ijk, call.r, Len(call.rotationMats))} :
          call' = [call EXCEPT !.allAtoms = @ \o TaggedAtoms(found, call.ijk, call.r),
                               !.ijk = nxt.ijk, !.r = nxt.r, !.done = nxt.done]
    /\ UNCHANGED <<file, grid, pc, locals>>

\* lines 541-544: the lists kept on the object
SymReturn ==
    /\ pc = "symmetry"
    /\ call.done
    /\ call' = [op |-> "_calcSymmetryAtoms", atoms |-> call.atoms,
                rotationMats |-> call.rotationMats,
                symmetryAtoms |-> call.allAtoms,
                symmetryOnlyAtoms |->
                    SelectSeq(call.allAtoms, LAMBDA x : x.symmetry # <<0, 0, 0, 0>>)]
    /\ pc' = "returned"
    /\ UNCHANGED <<file, grid, locals>>

NextSym ==
    \/ SymPass
    \/ SymReturn

SpecSym == InitSym /\ [][NextSym]_vars

(***************************************************************************)
(* The cloud grouping of DensityAnalysis.aggregateCloud, lines 316-336 for  *)
(* residues and 347-366 for chains: the same loop on residuePool and on     *)
(* chainPool.  The call in progress is in `call`: the pool of clouds, the   *)
(* overlap matrix, usedIdx, startingIndex, the members of currCluster still *)
(* to merge (pending), resClouds and the last merge made.  The clouds are   *)
(* blobs of the ccp4 module of the package, which has the merge method; a   *)
(* blob is [crsList, totalDensity, voxelCount, volume, centroid, atoms].    *)
(***************************************************************************)
\* the sum of f over a set of grid cells
RECURSIVE SumCells(_, _)
SumCells(S, f) ==
    IF S = {} THEN 0
    ELSE LET c == CHOOSE d \in S : TRUE
         IN  f[c] + SumCells(S \ {c}, f)

\* the blob of a set of grid cells and a set of atoms, its aggregates computed from
\* the cells: total density, voxel count, volume and the Cartesian image of the
\* density-weighted mean coordinate
BlobOfCells(g, cells, atoms) ==
    With(SumCells(cells, [c \in cells |-> getPointDensityFromCrs(g, c).val]), LAMBDA total :
        [crsList |-> cells,
         totalDensity |-> total,
         voxelCount |-> Cardinality(cells),
         volume |-> FMul(g.header.unitVolume, IntToF(Cardinality(cells))),
         centroid |->
            IF total = 0 THEN <<"degenerate">>
            ELSE [i \in 1..3 |->
                    FAdd(FMul(FDiv(IntToF(SumCells(cells, [c \in cells |->
                                      getPointDensityFromCrs(g, c).val
                                      * c[3 - g.header.map2xyz[i]]])),
                                   IntToF(total)),
                              g.header.gridLength[i]),
                         g.header.origin[i])],
         atoms |-> atoms])

\* a merge that unions the cells and adds up the aggregates of the two blobs
mergeAdding(g, blobA, blobB) ==
    [BlobOfCells(g, blobA.crsList \cup blobB.crsList, blobA.atoms \cup blobB.atoms) EXCEPT
        !.totalDensity = blobA.totalDensity + blobB.totalDensity,
        !.voxelCount = blobA.voxelCount + blobB.voxelCount,
        !.volume = FAdd(blobA.volume, blobB.volume)]

\* blobA.merge(blobB): the union of the two coordinate sets, every aggregate
\* computed again from the union
merge(g, blobA, blobB) ==
    BlobOfCells(g, blobA.crsList \cup blobB.crsList, blobA.atoms \cup blobB.atoms)

\* lines 326-331: the indices reached from newCluster through overlap
RECURSIVE GrowCluster(_, _, _)
GrowCluster(overlap, currCluster, newCluster) ==
    IF newCluster = {} THEN currCluster
    ELSE LET reached == {index \in DOMAIN overlap :
                            /\ index \notin currCluster
                            /\ \E oldIndex \in newCluster : overlap[oldIndex][index]}
         IN  GrowCluster(overlap, currCluster \cup reached, reached)

CurrCluster(overlap, startingIndex) ==
    GrowCluster(overlap,
                {startingIndex} \cup {index \in DOMAIN overlap : overlap[startingIndex][index]},
                {index \in DOMAIN overlap : overlap[startingIndex][index]})

\* pools hold at most MaxPool clouds
MaxPool == 3

PoolCells == {{<<0, 0, 0>>}, {<<0, 0, 1>>, <<1, 1, 1>>}}

\* the clouds of the atoms, line 309: the first two are clouds of one atom
Pools(g) ==
    UNION {{[n \in 1..len |-> BlobOfCells(g, cells[n], {(n + 1) \div 2})] :
                cells \in [1..len -> PoolCells]} : len \in 1..MaxPool}

\* lines 316-320: a symmetric matrix with False on its diagonal; pairs is the set
\* of the pairs {i, j} that testOverlap finds to overlap
OverlapOf(len, pairs) ==
    [i \in 0..(len - 1) |-> [j \in 0..(len - 1) |-> i # j /\ {i, j} \in pairs]]

Overlaps(len) ==
    {OverlapOf(len, pairs) :
        pairs \in SUBSET {{i, j} : i \in 0..(len - 1), j \in 0..(len - 1)}}

NoMerge == [idx |-> -1, into |-> -1]

InitMerge ==
    /\ file = ClusterFile
    /\ grid = Parse(file)
    /\ pc = "grouping"
    /\ \E residuePool \in Pools(grid) :
       \E overlap \in Overlaps(Len(residuePool)) :
          call = [op |-> "aggregateCloud", residuePool |-> residuePool,
                  overlap |-> overlap, usedIdx |-> {}, startingIndex |-> 0,
                  pending |-> {}, resClouds |-> <<>>, last |-> NoMerge]
    /\ NoLocals

\* lines 324-333: the next startingIndex, skipped when used, else its cluster
GroupNext ==
    /\ pc = "grouping"
    /\ call.startingIndex < Len(call.residuePool)
    /\ IF call.startingIndex \in call.usedIdx
       THEN /\ call' = [call EXCEPT !.startingIndex = @ + 1]
            /\ pc' = pc
       ELSE /\ \E currCluster \in {CurrCluster(call.overlap, call.startingIndex)} :
                  call' = [call EXCEPT !.usedIdx = @ \cup currCluster,
                                       !.pending = currCluster]
            /\ pc' = "merging"
    /\ UNCHANGED <<file, grid, locals>>

\* lines 334-335: one pass of the for loop over currCluster, a set
MergeOne ==
    /\ pc = "merging"
    /\ \E idx \in call.pending :
       \E merged \in {merge(grid, call.residuePool[call.startingIndex + 1],
                            call.residuePool[idx + 1])} :
          call' = [call EXCEPT
                      !.residuePool[call.startingIndex + 1] = merged,
                      !.pending = @ \ {idx},
                      !.last = [idx |-> idx, into |-> call.startingIndex,
                                before |-> call.residuePool[call.startingIndex + 1],
                                after |-> merged]]
    /\ UNCHANGED <<file, grid, pc, locals>>

\* line 336, after the for loop
GroupDone ==
    /\ pc = "merging"
    /\ call.pending = {}
    /\ call' = [call EXCEPT
                   !.resClouds = Append(@, call.residuePool[call.startingIndex + 1]),
                   !.startingIndex = @ + 1]
    /\ pc' = "grouping"
    /\ UNCHANGED <<file, grid, locals>>

\* the loop of line 324 is over
GroupReturn ==
    /\ pc = "grouping"
    /\ call.startingIndex = Len(call.residuePool)
    /\ call' = [op |-> "aggregateCloud", resClouds |-> call.resClouds]
    /\ pc' = "returned"
    /\ UNCHANGED <<file, grid, locals>>

NextMerge ==
    \/ GroupNext
    \/ MergeOne
    \/ GroupDone
    \/ GroupReturn

SpecMerge == InitMerge /\ [][NextMerge]_vars

(***************************************************************************)
(* Properties.                                                             *)
(***************************************************************************)
\* two coordinates differ by at most 1 on every axis
Near(p, q) == \A i \in 1..3 : Abs(p[i] - q[i]) <= 1

\* a chain of adjacent candidates links candidates a and b (positions from 1)
Chained(list, a, b) ==
    \E n \in 1..Len(list) : \E path \in [1..n -> 1..Len(list)] :
        /\ path[1] = a
        /\ path[n] = b
        /\ \A j \in 1..(n - 1) : Near(list[path[j]], list[path[j + 1]])

\* the blobs (positions in adjSetList) that hold candidate x (0-based)
BlobsOf(x) == {k \in 1..Len(adjSetList) : x \in adjSetList[k]}

ClusteringDone == pc = "blobs"

\* C1: when the clustering ends, every candidate is in exactly one blob, two
\* candidates share a blob iff a chain of adjacent candidates links them, and of
\* two candidates alone, those (2,0,0) apart make two blobs and those (1,0,0),
\* (1,1,0) or (1,1,1) apart make one.
C1_ConnectedComponents ==
    ClusteringDone =>
        LET n == Len(crsCoordList)
        IN  /\ \A k \in 1..Len(adjSetList) :
                   adjSetList[k] # {} /\ adjSetList[k] \subseteq 0..(n - 1)
            /\ \A x \in 0..(n - 1) : Cardinality(BlobsOf(x)) = 1
            /\ \A x, y \in 0..(n - 1) :
                   (BlobsOf(x) = BlobsOf(y)) <=> Chained(crsCoordList, x + 1, y + 1)
            /\ n = 2 =>
                   LET d == [i \in 1..3 |-> Abs(crsCoordList[2][i] - crsCoordList[1][i])]
                   IN  /\ d = <<2, 0, 0>> => Len(adjSetList) = 2
                       /\ d \in {<<1, 0, 0>>, <<1, 1, 0>>, <<1, 1, 1>>} => Len(adjSetList) = 1

\* three candidates end in two blobs: two joined by a diagonal step, one apart
C1_Witness ==
    /\ ClusteringDone
    /\ Len(crsCoordList) = 3
    /\ Len(adjSetList) = 2
    /\ \E k \in 1..2 : \E x, y \in adjSetList[k] :
           x # y /\ Abs(crsCoordList[x + 1][2] - crsCoordList[y + 1][2]) = 1
                 /\ Abs(crsCoordList[x + 1][3] - crsCoordList[y + 1][3]) = 1

SphereReturned == pc = "returned" /\ call.op = "getSphereCrsFromXyz"

LookupReturned == pc = "returned" /\ call.op = "getPointDensityFromCrs"

\* the cells the loops of a sphere query visit inside the ellipsoid, in order
EnumeratedCells(h, crsCoord, crsRadius) ==
    LET inside == SelectSeq([k \in 1..LoopCount(crsRadius) |-> LoopOffset(crsRadius, k - 1)],
                            LAMBDA off : InEllipsoid(off, crsRadius))
    IN  [k \in 1..Len(inside) |-> [i \in 1..3 |-> crsCoord[i] + inside[k][i]]]

\* the cutoff rule as documented, on a density
KeptByCutoff(density, densityCutoff) ==
    \/ densityCutoff = 0
    \/ densityCutoff > 0 /\ density > densityCutoff
    \/ densityCutoff < 0 /\ density < densityCutoff

\* C2: a sphere query returns a list, and the list holds one entry for each
\* enumerated cell the cutoff rule keeps: every cell when the cutoff is 0, the
\* cells of density above a positive cutoff, the cells of density below a negative
\* one.
C2_CutoffSemantics ==
    SphereReturned =>
        /\ call.err = "none"
        /\ LET cells == EnumeratedCells(grid.header, xyz2crsCoord(grid.header, call.xyz),
                                        SphereRadius(grid.header, call.radius))
               kept  == SelectSeq(cells, LAMBDA c :
                            KeptByCutoff(getPointDensityFromCrs(grid, c).val, call.cutoff))
           IN  Len(call.list) = Len(kept)

\* C3: every coordinate a sphere query with a non-zero cutoff returns is in the list
\* the query of the same grid, centre and radius returns with cutoff 0.
C3_ZeroCutoffSuperset ==
    (SphereReturned /\ call.cutoff # 0 /\ call.err = "none") =>
        \E zero \in {getSphereCrsFromXyz(grid, call.xyz, call.radius, 0)} :
            /\ zero.err = "none"
            /\ \A k \in 1..Len(call.list) : \E j \in 1..Len(zero.list) :
                   zero.list[j] = call.list[k]

\* a query with a non-zero cutoff has returned some cells and dropped others
C3_Witness ==
    /\ SphereReturned
    /\ call.cutoff # 0
    /\ call.err = "none"
    /\ Len(call.list) > 0
    /\ Len(getSphereCrsFromXyz(grid, call.xyz, call.radius, 0).list) > Len(call.list)

\* the storage axis (1 = section, 2 = row, 3 = column) extents and interval counts
Extent(h, i) == h.ncrs[4 - i]

IntervalOf(h, i) == PyGet(h.xyzInterval, h.map2crs[4 - i])

\* periodic normalisation as documented: an index outside [0, extent) is reduced
\* modulo the interval count of its axis
Normalized(h, crs) ==
    [i \in 1..3 |->
        IF 0 <= crs[i] /\ crs[i] < Extent(h, i) THEN crs[i] ELSE crs[i] % IntervalOf(h, i)]

InExtent(h, crs) == \A i \in 1..3 : 0 <= crs[i] /\ crs[i] < Extent(h, i)

\* C4: a lookup of a coordinate that, once normalised, is outside [0, ncrs) on some
\* axis (an index equal to ncrs included) returns 0.
C4_ZeroOutsideExtent ==
    (LookupReturned /\ ~InExtent(grid.header, Normalized(grid.header, call.arg))) =>
        (call.err = "none" /\ call.val = 0)

\* C5: a lookup never fails, and when it reads the array each index it uses is
\* within the extent of its own storage axis.
C5_LookupNeverFails ==
    LookupReturned =>
        /\ call.err = "none"
        /\ validCRS(grid.header, call.arg).ok => InExtent(grid.header, call.crs)

\* C6: a lookup that goes on to the array uses, on every axis, the given index if it
\* is within [0, ncrs) and the index modulo the axis's interval count otherwise.
C6_ReducedModuloInterval ==
    (LookupReturned /\ validCRS(grid.header, call.arg).ok) =>
        call.crs = Normalized(grid.header, call.arg)

RoundTripReturned == pc = "returned" /\ call.op = "xyz2crsCoord" /\ call.of # <<>>

\* C7: converting an interior grid coordinate to Cartesian and back returns it.
C7_RoundTrip ==
    (RoundTripReturned /\ InExtent(grid.header, call.of)) => call.res = call.of

\* the cell that encloses a Cartesian point: the floor of the quotient on each axis
EnclosingCell(h, xyzCoord) ==
    LET pos == [i \in 1..3 |->
                   FFloor(FDiv(FSub(xyzCoord[i], h.origin[i]), h.gridLength[i]))]
    IN  <<PyGet(pos, h.map2crs[3]), PyGet(pos, h.map2crs[2]), PyGet(pos, h.map2crs[1])>>

\* C8: xyz2crsCoord returns the cell that encloses the point, on each axis the floor
\* of (xyz - origin) / spacing, below the origin as above it.
C8_FloorToEnclosingCell ==
    (pc = "returned" /\ call.op = "xyz2crsCoord" /\ call.of = <<>>) =>
        call.res = EnclosingCell(grid.header, call.arg)

\* a file that is sound but for its interval counts and axis triple
SoundButQuirks(f) ==
    /\ f.hdrLen = 1024
    /\ f.dataLen = f.symmetryBytes + 4 * f.ncrs[1] * f.ncrs[2] * f.ncrs[3]
    /\ \E i \in 1..3 : f.len[i] # FZero

IsPermutation(t) == {t[1], t[2], t[3]} = {1, 2, 3}

Parsed == pc = "parsed"

\* C9: parse of a file with a zero interval count on an axis of positive extent
\* does not fail; the axis's interval count is ncrs - 1 and its spacing is the cell
\* length divided by that.
C9_ZeroIntervalReplaced ==
    (Parsed /\ SoundButQuirks(file) /\ IsPermutation(file.c2x)) =>
        \A i \in 1..3 :
            (file.nint[i] = 0 /\ file.ncrs[i] > 0) =>
                /\ grid.err = "none"
                /\ grid.header.xyzInterval[i] = file.ncrs[i] - 1
                /\ grid.header.gridLength[i] = FDiv(file.len[i], IntToF(file.ncrs[i] - 1))

\* C10: the axis triple of a parsed file is (1,2,3) if the three raw values are all
\* zero, and the raw values otherwise.
C10_AxesDefaultOnlyWhenAllZero ==
    (Parsed /\ grid.err = "none") =>
        <<grid.header.col2xyz, grid.header.row2xyz, grid.header.sec2xyz>> =
            IF file.c2x = <<0, 0, 0>> THEN <<1, 2, 3>> ELSE file.c2x

(***************************************************************************)
(* The header and the size of the data.                                    *)
(***************************************************************************)
HeaderDecoded == call.op = "fromFileHeader"

VoxelCount(f) == f.ncrs[1] * f.ncrs[2] * f.ncrs[3]

ExpectedDataLen(f) == f.symmetryBytes + 4 * VoxelCount(f)

AllLengthsZero(f) == \A i \in 1..3 : f.len[i] = FZero

\* C11: in every grid that parse returns, the spacing of each axis is the cell
\* length divided by the interval count of that axis, and it is greater than zero.
C11_SpacingPositive ==
    (Parsed /\ grid.err = "none") =>
        \A i \in 1..3 :
            /\ grid.header.gridLength[i]
                 = FDiv(grid.header.xyzLength[i], IntToF(grid.header.xyzInterval[i]))
            /\ grid.header.gridLength[i].m > 0

\* C12: decoding a header buffer shorter than 1024 bytes fails and yields no
\* header object.
C12_ShortHeaderRejected ==
    (HeaderDecoded /\ file.hdrLen < 1024) =>
        (call.err # "none" /\ call.h = NoHeader)

\* C13: parse returns a grid only when the bytes after the header number
\* symmetryBytes + 4 * ncrs[0] * ncrs[1] * ncrs[2]; with any other number it raises
\* and returns no grid; a grid that is returned holds ncrs[0] * ncrs[1] * ncrs[2]
\* voxels.
C13_SizeMatchesOrAborts ==
    Parsed =>
        /\ grid.err = "none" =>
             /\ file.dataLen = ExpectedDataLen(file)
             /\ Cardinality(DOMAIN grid.density) = VoxelCount(file)
        /\ file.dataLen # ExpectedDataLen(file) =>
             /\ grid.err # "none"
             /\ grid.header = NoHeader
             /\ grid.density = NoDensity

C13_Witness ==
    /\ Parsed
    /\ grid.err = "none"
    /\ file.symmetryBytes = 80
    /\ file.dataLen = 80 + 4 * 12
    /\ Cardinality(DOMAIN grid.density) = 12

\* C14: parse raises, and returns no grid, when the three cell edge lengths are all
\* zero; when one of them is not zero it does not raise the error of the cell check.
C14_AllZeroCellAborts ==
    Parsed =>
        /\ AllLengthsZero(file) =>
             /\ grid.err # "none"
             /\ grid.header = NoHeader
             /\ grid.density = NoDensity
        /\ ~AllLengthsZero(file) =>
             grid.err # "AssertionError: cell dimensions are all 0"

C14_Witness ==
    /\ Parsed
    /\ AllLengthsZero(file)
    /\ grid.err = "AssertionError: cell dimensions are all 0"


(***************************************************************************)
(* The statistics of the blobs.                                            *)
(***************************************************************************)
\* findAberrantBlubs has run its loop of lines 411-431: call.list is the candidate
\* list, call.sets the adjacent sets, call.blobs the blobs when call.err is "none"
BlobsComputed ==
    /\ pc = "returned"
    /\ call.op = "findAberrantBlubs"
    /\ "sets" \in DOMAIN call

BlobsReturned == BlobsComputed /\ call.err = "none"

\* the densities of the candidates at positions 1 .. n of list that are in S, added up
RECURSIVE DensitySum(_, _, _, _)
DensitySum(g, list, S, n) ==
    IF n = 0 THEN 0
    ELSE DensitySum(g, list, S, n - 1)
         + (IF (n - 1) \in S THEN getPointDensityFromCrs(g, list[n]).val ELSE 0)

\* the same with each density multiplied by the candidate's index on axis i
RECURSIVE WeightSum(_, _, _, _, _)
WeightSum(g, list, S, n, i) ==
    IF n = 0 THEN 0
    ELSE WeightSum(g, list, S, n - 1, i)
         + (IF (n - 1) \in S
            THEN getPointDensityFromCrs(g, list[n]).val
                 * getPointDensityFromCrs(g, list[n]).crs[i]
            ELSE 0)

\* origin + spacing * (sum of density * index / total density) on Cartesian axis i,
\* with the mean left as it is
MeanPosition(g, list, S, i) ==
    FAdd(FMul(FDiv(IntToF(WeightSum(g, list, S, Len(list), 3 - g.header.map2xyz[i])),
                   IntToF(DensitySum(g, list, S, Len(list)))),
              g.header.gridLength[i]),
         g.header.origin[i])

\* C15: for every blob the query returns, total_density is the sum of the density
\* lookups of the blob's members and volume is the number of members times the
\* volume of one voxel.
C15_BlobAggregates ==
    BlobsReturned =>
        \A k \in 1..Len(call.blobs) :
            /\ call.blobs[k].total_density
                 = DensitySum(grid, call.list, call.sets[k], Len(call.list))
            /\ call.blobs[k].volume
                 = FMul(grid.header.unitVolume, IntToF(Cardinality(call.sets[k])))

C15_Witness ==
    /\ BlobsReturned
    /\ \E k \in 1..Len(call.blobs) :
          /\ Cardinality(call.sets[k]) = 2
          /\ call.blobs[k].total_density = 10

\* C16: no grid cell is counted twice in a blob: the members of a returned blob are
\* different cells, also when the sphere is wider than the repeat of the grid.
C16_NoCellTwice ==
    BlobsReturned =>
        \A k \in 1..Len(call.blobs) :
            \A x, y \in call.sets[k] :
                x # y => call.list[x + 1] # call.list[y + 1]

\* C17: when the densities of a blob's members add up to zero the query does not
\* abort: it returns its blobs.
C17_ZeroTotalFlagged ==
    (BlobsComputed
     /\ \A k \in 1..Len(call.sets) :
            \A x \in call.sets[k] : getPointDensityFromCrs(grid, call.list[x + 1]).err = "none")
    => ((\E k \in 1..Len(call.sets) :
            DensitySum(grid, call.list, call.sets[k], Len(call.list)) = 0)
        => call.err = "none")

\* C18: on each Cartesian axis the centroid of a returned blob is
\* origin + spacing * (sum of density * index / total density), the mean not
\* rounded to a whole cell.
C18_CentroidIsWeightedMean ==
    BlobsReturned =>
        \A k \in 1..Len(call.blobs) :
            \A i \in 1..3 :
                call.blobs[k].centroid[i] = MeanPosition(grid, call.list, call.sets[k], i)


(***************************************************************************)
(* Symmetry replication.                                                   *)
(***************************************************************************)
SymmetryReturned == pc = "returned" /\ call.op = "_calcSymmetryAtoms"

\* the positions in the output of the entries of source atom a with the tag (0,0,0,0)
SourceEntries(a) ==
    {n \in 1..Len(call.symmetryAtoms) :
        /\ call.symmetryAtoms[n].symmetry = <<0, 0, 0, 0>>
        /\ call.symmetryAtoms[n].atom = a}

\* C20: in the output of _calcSymmetryAtoms every atom with the tag (0,0,0,0) has the
\* coordinate of its source atom, and every source atom is in the output once with
\* that tag.
C20_SourceAtomsKept ==
    SymmetryReturned =>
        /\ \A n \in 1..Len(call.symmetryAtoms) :
              call.symmetryAtoms[n].symmetry = <<0, 0, 0, 0>> =>
                  call.symmetryAtoms[n].coord = call.atoms[call.symmetryAtoms[n].atom]
        /\ \A a \in 1..Len(call.atoms) : Cardinality(SourceEntries(a)) = 1

C20_Witness ==
    /\ SymmetryReturned
    /\ Len(call.rotationMats) = 2
    /\ \E a \in 1..Len(call.atoms) :
          /\ ~InRange(grid.header, call.atoms[a])
          /\ Cardinality(SourceEntries(a)) = 1
    /\ \E n \in 1..Len(call.symmetryAtoms) : call.symmetryAtoms[n].wrapped


(***************************************************************************)
(* Merging clouds.                                                         *)
(***************************************************************************)
Grouping == call.op = "aggregateCloud" /\ pc \in {"grouping", "merging"}

SelfMerged == Grouping /\ call.last.idx # -1 /\ call.last.idx = call.last.into

\* C19: a blob merged with itself is the blob unchanged, for every cloud the
\* grouping holds; the grouping merges the starting cloud of a cluster with itself,
\* and that merge leaves the cloud as it was.
C19_MergeIdempotent ==
    Grouping =>
        /\ \A n \in 1..Len(call.residuePool) :
              merge(grid, call.residuePool[n], call.residuePool[n]) = call.residuePool[n]
        /\ SelfMerged => call.last.after = call.last.before
        /\ (pc = "merging" /\ call.last.into # call.startingIndex) =>
              call.startingIndex \in call.pending

C19_Witness ==
    /\ SelfMerged
    /\ call.last.before.voxelCount = 3
    /\ call.last.before.atoms = {1, 2}
    /\ call.last.after = call.last.before


(***************************************************************************)
(* DensityAnalysis.validation, lines 215-247.  Objects live in a heap, a    *)
(* sequence indexed by reference, so that two names of one object and two   *)
(* equal objects are told apart.  A DensityMatrix is the record of the      *)
(* references of its header, its 1-d list and its 3-d array (its origin is   *)
(* the origin list of its header).                                          *)
(***************************************************************************)
\* the objects a parsed grid g adds to heap: header, 1-d list, 3-d array, matrix
AllocGrid(heap, g) ==
    With(Len(heap), LAMBDA n :
        heap \o <<[kind |-> "DensityHeader", val |-> g.header],
                  [kind |-> "list", val |-> g.density],
                  [kind |-> "ndarray", shape |-> <<g.header.ncrs[3], g.header.ncrs[2],
                                                   g.header.ncrs[1]>>,
                   val |-> g.density],
                  [kind |-> "DensityMatrix", header |-> n + 1, densityArray |-> n + 2,
                   density |-> n + 3]>>)

\* a second name for the object itself
DeepCopyAlias(heap, ref) == [heap |-> heap, ref |-> ref]

\* copy.deepcopy of a DensityMatrix, lines 241-242: a new matrix with new copies of
\* its header, list and array
DeepCopy(heap, ref) ==
    With(Len(heap), LAMBDA n :
        [heap |-> heap \o <<heap[heap[ref].header], heap[heap[ref].densityArray],
                            heap[heap[ref].density],
                            [kind |-> "DensityMatrix", header |-> n + 1,
                             densityArray |-> n + 2, density |-> n + 3]>>,
         ref |-> n + 4])

\* numpy's array * 2: a new array
NpTimes2(a) == [a EXCEPT !.val = [ix \in DOMAIN a.val |-> a.val[ix] * 2]]

\* numpy's array - array of one shape: a new array
NpMinus(a, b) == [a EXCEPT !.val = [ix \in DOMAIN a.val |-> a.val[ix] - b.val[ix]]]

\* what the statistics step (line 247) may give: it raises, or returns a value that
\* is false or true as a condition
StatsOutcomes == {"raise", "empty", "stats"}

Truthy(statistics) == statistics = "stats"

\* validation: the frame left by a call on the object self, with heap the heap before
validation(heap, self, densityArg, diffDensityArg, recalculate, stats) ==
    IF Truthy(self.statistics) /\ ~recalculate
    THEN [heap |-> heap, self |-> self, err |-> "none", built |-> FALSE]
    ELSE
    With(IF densityArg = 0 THEN self.densityObj ELSE densityArg, LAMBDA densityObj :
    With(IF diffDensityArg = 0 THEN self.diffDensityObj ELSE diffDensityArg, LAMBDA diffDensityObj :
    With(DeepCopy(heap, densityObj), LAMBDA fo :
    With(DeepCopy(fo.heap, densityObj), LAMBDA fc :
    With(Append(fc.heap, NpTimes2(fc.heap[fc.heap[diffDensityObj].density])), LAMBDA h1 :
        IF h1[h1[densityObj].density].shape # h1[Len(h1)].shape
        THEN [heap |-> h1, self |-> self, err |-> "ValueError", built |-> FALSE]
        ELSE
        With(Append(h1, NpMinus(h1[h1[densityObj].density], h1[Len(h1)])), LAMBDA h2 :
        With([h2 EXCEPT ![fc.ref].density = Len(h2)], LAMBDA h3 :
            [heap |-> h3,
             self |-> IF stats = "raise" THEN self ELSE [self EXCEPT !.statistics = stats],
             err |-> IF stats = "raise" THEN "Exception" ELSE "none",
             built |-> TRUE, densityObj |-> densityObj, diffDensityObj |-> diffDensityObj,
             fo |-> fo.ref, fc |-> fc.ref])))))))

\* a DensityAnalysis object is validated at most MaxCalls times
MaxCalls == 2

\* the density map and the difference maps: the second has another shape
ValidFiles ==
    {GoodFile(<<2, 2, 2>>, <<2, 2, 2>>, <<4, 4, 4>>, <<1, 2, 3>>, <<0, 0, 0>>, hot, cold) :
        hot \in {0, 7}, cold \in {-1, 3}}

DiffFiles ==
    ValidFiles \cup
        {GoodFile(<<3, 2, 2>>, <<3, 4, 4>>, <<4, 4, 4>>, <<1, 2, 3>>, <<0, 0, 0>>, 1, 2)}

InitValid ==
    /\ file \in ValidFiles
    /\ grid = Parse(file)
    /\ pc = "idle"
    /\ \E diff \in DiffFiles :
          call = [op |-> "none", calls |-> 0,
                  heap |-> AllocGrid(AllocGrid(<<>>, grid), Parse(diff)),
                  self |-> [statistics |-> "None", densityObj |-> 4, diffDensityObj |-> 8]]
    /\ NoLocals

\* one call of validation; an argument of 0 is None, and 4 and 8 are the two grids
Validation(densityArg, diffDensityArg, recalculate, stats) ==
    /\ pc = "idle"
    /\ call.calls < MaxCalls
    /\ \E res \in {validation(call.heap, call.self, densityArg, diffDensityArg,
                              recalculate, stats)} :
          call' = [op |-> "validation", calls |-> call.calls + 1, before |-> call.heap,
                   heap |-> res.heap, self |-> res.self, res |-> res]
    /\ pc' = "returned"
    /\ UNCHANGED <<file, grid, locals>>

\* the caller goes on with the object
ValidationDone ==
    /\ pc = "returned"
    /\ call.op = "validation"
    /\ call' = [op |-> "none", calls |-> call.calls, heap |-> call.heap, self |-> call.self]
    /\ pc' = "idle"
    /\ UNCHANGED <<file, grid, locals>>

NextValid ==
    \/ \E densityArg \in {0, 8}, diffDensityArg \in {0, 4}, recalculate \in BOOLEAN,
          stats \in StatsOutcomes :
          Validation(densityArg, diffDensityArg, recalculate, stats)
    \/ ValidationDone

SpecValid == InitValid /\ [][NextValid]_vars

(***************************************************************************)
(* Sphere queries on grids whose three spacings differ, for every order of  *)
(* the axes.  The grids are large enough that no enumerated cell leaves      *)
(* them.                                                                    *)
(***************************************************************************)
AxisOrders ==
    {<<1, 2, 3>>, <<1, 3, 2>>, <<2, 1, 3>>, <<2, 3, 1>>, <<3, 1, 2>>, <<3, 2, 1>>}

\* 5 x 5 x 5 grids of spacing 4 along x, 2 along y and 1 along z
AnisoFiles ==
    {GoodFile(<<5, 5, 5>>, <<5, 5, 5>>, <<20, 10, 5>>, c2x, <<0, 0, 0>>, 0, 124) :
        c2x \in AxisOrders}

\* two points of the cell (2, 2, 2)
AnisoCentres ==
    {<<IntToF(10), IntToF(5), FRound(5, -1)>>, <<IntToF(10), IntToF(5), IntToF(2)>>}

AnisoRadii == {IntToF(1), IntToF(2), IntToF(3)}

InitSphere ==
    /\ file \in AnisoFiles
    /\ grid = Parse(file)
    /\ pc = "idle"
    /\ call = NoCall
    /\ NoLocals

NextSphere ==
    \/ \E x \in AnisoCentres, radius \in AnisoRadii, densityCutoff \in Cutoffs :
          Sphere(x, radius, densityCutoff)
    \/ Return

SpecSphere == InitSphere /\ [][NextSphere]_vars

(***************************************************************************)
(* The cached properties symmetryAtoms, symmetryOnlyAtoms,                  *)
(* symmetryAtomCoords and symmetryOnlyAtomCoords of a DensityAnalysis       *)
(* object, lines 176-200.  The object's four fields _symmetryAtoms, ...     *)
(* are the fields symmetryAtoms, ... of the record self; a field is None    *)
(* until it is assigned.                                                    *)
(***************************************************************************)
NoneField == [set |-> FALSE, val |-> <<>>]

Field(v) == [set |-> TRUE, val |-> v]

\* a test for None or an empty list, as `not field` would be
IsFalsy(field) == ~field.set \/ field.val = <<>>

\* the test `field == None` of the four properties
IsNone(field) == ~field.set

\* lines 516-539: allAtoms from the pass (ijk, r) to the last one
RECURSIVE Passes(_, _, _, _, _, _)
Passes(g, f, atoms, rotationMats, ijk, r) ==
    TaggedAtoms(InRangeAtoms(g, f, atoms, rotationMats, ijk, r), ijk, r)
        \o With(NextPass(ijk, r, Len(rotationMats)), LAMBDA nxt :
                IF nxt.done THEN <<>> ELSE Passes(g, f, atoms, rotationMats, nxt.ijk, nxt.r))

\* _calcSymmetryAtoms on the object self, lines 499-544: the object after the call,
\* and whether the replication ran.  The read of the property symmetryOnlyAtoms in
\* line 544 finds the field assigned in line 543.
calcSymmetryAtoms(g, f, self, recalculate) ==
    IF self.symmetryAtoms.set /\ self.symmetryAtoms.val # <<>> /\ ~recalculate
    THEN [self |-> self, ran |-> FALSE]
    ELSE With(IF Len(self.rotationMats) = 0 THEN <<>>
              ELSE Passes(g, f, self.atoms, self.rotationMats, <<-1, -1, -1>>, 0),
              LAMBDA allAtoms :
         With(SelectSeq(allAtoms, LAMBDA x : x.symmetry # <<0, 0, 0, 0>>), LAMBDA only :
            [self |-> [self EXCEPT
                          !.symmetryAtoms = Field(allAtoms),
                          !.symmetryAtomCoords =
                              Field([n \in 1..Len(allAtoms) |-> allAtoms[n].coord]),
                          !.symmetryOnlyAtoms = Field(only),
                          !.symmetryOnlyAtomCoords =
                              Field([n \in 1..Len(only) |-> only[n].coord])],
             ran |-> TRUE]))

PropertyNames ==
    {"symmetryAtoms", "symmetryOnlyAtoms", "symmetryAtomCoords", "symmetryOnlyAtomCoords"}

\* the field a property tests before it returns its own
TestedField(self, prop) ==
    IF prop \in {"symmetryAtoms", "symmetryAtomCoords"}
    THEN self.symmetryAtoms ELSE self.symmetryOnlyAtoms

\* a read of the property prop: the object after it, whether the replication ran,
\* and the value returned
GetProperty(g, f, self, prop) ==
    With(IF IsNone(TestedField(self, prop)) THEN calcSymmetryAtoms(g, f, self, FALSE)
         ELSE [self |-> self, ran |-> FALSE], LAMBDA c :
        [self |-> c.self, ran |-> c.ran, result |-> c.self[prop]])

\* an object's properties are read at most MaxReads times
MaxReads == 4

\* structures of the property reads: no atom, one atom inside the box, and one
\* atom outside it with one that a screw operator brings close to it
PropAtomLists ==
    {<<>>, <<Floats3(<<1, 1, 1>>)>>, <<Floats3(<<-7, 0, 3>>), Floats3(<<9, 1, 1>>)>>}

InitProps ==
    /\ file = SymFile
    /\ grid = Parse(file)
    /\ pc = "object"
    /\ \E atoms \in PropAtomLists, rotationMats \in RotationLists :
          call = [op |-> "__init__", reads |-> 0, runs |-> 0, result |-> NoneField,
                  self |-> [atoms |-> atoms, rotationMats |-> rotationMats,
                            symmetryAtoms |-> NoneField, symmetryOnlyAtoms |-> NoneField,
                            symmetryAtomCoords |-> NoneField,
                            symmetryOnlyAtomCoords |-> NoneField]]
    /\ NoLocals

\* one read of a property; runs counts the replications made for the object
ReadProperty(prop) ==
    /\ pc = "object"
    /\ call.reads < MaxReads
    /\ \E got \in {GetProperty(grid, file, call.self, prop)} :
          call' = [op |-> prop, reads |-> call.reads + 1,
                   runs |-> call.runs + (IF got.ran THEN 1 ELSE 0),
                   result |-> got.result, self |-> got.self]
    /\ UNCHANGED <<file, grid, pc, locals>>

NextProps == \E prop \in PropertyNames : ReadProperty(prop)

SpecProps == InitProps /\ [][NextProps]_vars

(***************************************************************************)
(* The results DensityAnalysis.aggregateCloud keeps on the object, lines    *)
(* 271-276, 383-388 and 413-448.  What the loops of lines 278-381 compute    *)
(* from the clouds is an input here: the totals, the number of rows of       *)
(* atomList, the residue and chain rows, and whether the statistics of lines *)
(* 413-435 raise.                                                           *)
(***************************************************************************)
\* list.sort of a list of numbers without repeats (line 388, by column 3)
SortedList(list) ==
    [n \in 1..Len(list) |->
        CHOOSE v \in {list[k] : k \in 1..Len(list)} :
            Cardinality({k \in 1..Len(list) : list[k] < v}) = n - 1]

\* the fields as __init__ leaves them, lines 166-175
NoResults ==
    [chainMedian |-> NoneField, chainNvoxel |-> NoneField, chainTotalE |-> NoneField,
     chainTotalDensity |-> NoneField, medians |-> NoneField, atomList |-> NoneField,
     residueList |-> NoneField, chainList |-> NoneField]

\* the test of line 271: a chainMedian that is None or 0.0 is false
HasChainMedian(self) == self.chainMedian.set /\ self.chainMedian.val # FZero

\* the assignments of lines 438-448
KeepResults(self, in, chainMedian) ==
    [self EXCEPT
        !.chainMedian = Field(chainMedian),
        !.chainNvoxel = Field(in.numVoxels),
        !.chainTotalE = Field(in.totalElectrons),
        !.chainTotalDensity = Field(in.totalDensity),
        !.medians = Field(<<"medians", in.atomRows>>),
        !.atomList = IF in.atomL THEN Field(<<"atoms", in.atomRows>>) ELSE @,
        !.residueList = IF in.residueL THEN Field(in.residueList) ELSE @,
        !.chainList = IF in.chainL THEN Field(SortedList(in.chainList)) ELSE @]

\* an aggregateCloud that keeps the totals before the statistics are computed
aggregateCloudEager(self, in) ==
    IF HasChainMedian(self) /\ ~in.recalculate THEN [self |-> self, outcome |-> "cached"]
    ELSE IF in.totalElectrons = 0 \/ in.atomRows < in.minTotalAtoms
    THEN [self |-> self, outcome |-> "failed"]
    ELSE With(FDiv(IntToF(in.totalDensity), IntToF(in.totalElectrons)), LAMBDA chainMedian :
            IF in.raises
            THEN [self |-> [self EXCEPT !.chainMedian = Field(chainMedian),
                                        !.chainNvoxel = Field(in.numVoxels)],
                  outcome |-> "failed"]
            ELSE [self |-> KeepResults(self, in, chainMedian), outcome |-> "done"])

\* aggregateCloud: the object after the call, and whether the call returned at line
\* 272 ("cached"), returned 0 ("failed") or reached its end ("done")
aggregateCloud(self, in) ==
    IF HasChainMedian(self) /\ ~in.recalculate THEN [self |-> self, outcome |-> "cached"]
    ELSE IF in.totalElectrons = 0 \/ in.atomRows < in.minTotalAtoms
    THEN [self |-> self, outcome |-> "failed"]
    ELSE With(FDiv(IntToF(in.totalDensity), IntToF(in.totalElectrons)), LAMBDA chainMedian :
            IF in.raises THEN [self |-> self, outcome |-> "failed"]
            ELSE [self |-> KeepResults(self, in, chainMedian), outcome |-> "done"])

\* an object's clouds are aggregated at most MaxAggregations times
MaxAggregations == 2

\* what the loops computed and the arguments of a call
AggregateInputs ==
    [totalElectrons : {0, 2}, totalDensity : {0, 3}, numVoxels : {4}, atomRows : {1, 2},
     minTotalAtoms : {2}, raises : BOOLEAN, recalculate : BOOLEAN,
     atomL : BOOLEAN, residueL : BOOLEAN, chainL : BOOLEAN,
     residueList : {<<5>>}, chainList : {<<>>, <<7, 6>>}]

InitAggregate ==
    /\ file = NoFile
    /\ grid = NoGrid("none")
    /\ pc = "object"
    /\ call = [op |-> "__init__", calls |-> 0, self |-> NoResults]
    /\ NoLocals

\* one call of aggregateCloud
AggregateCloud(in) ==
    /\ pc = "object"
    /\ call.calls < MaxAggregations
    /\ \E res \in {aggregateCloud(call.self, in)} :
          call' = [op |-> "aggregateCloud", calls |-> call.calls + 1, in |-> in,
                   before |-> call.self, self |-> res.self, outcome |-> res.outcome]
    /\ UNCHANGED <<file, grid, pc, locals>>

NextAggregate == \E in \in AggregateInputs : AggregateCloud(in)

SpecAggregate == InitAggregate /\ [][NextAggregate]_vars

\* the test of line 534 with the margin counted in grid cells of each axis
InRangeCells(h, coord) ==
    \A t \in 1..3 :
        /\ ~FLess(coord[t], FSub(BoxFirst(h, t), FMul(IntToF(Margin), h.gridLength[t])))
        /\ ~FLess(FAdd(BoxLast(h, t), FMul(IntToF(Margin), h.gridLength[t])), coord[t])

\* the output holds an entry of source atom a with the tag (ijk, r)
Retained(a, ijk, r) ==
    \E n \in 1..Len(call.symmetryAtoms) :
        /\ call.symmetryAtoms[n].atom = a
        /\ call.symmetryAtoms[n].symmetry = <<ijk[1], ijk[2], ijk[3], r>>

Offsets == {<<i, j, k>> : i \in {-1, 0, 1}, j \in {-1, 0, 1}, k \in {-1, 0, 1}}

\* C21: every atom in the output of _calcSymmetryAtoms, whatever its offset and
\* rotation operator, has its coordinate inside the box of the grid widened by the
\* margin on every axis.
C21_OutputInsideBox ==
    SymmetryReturned =>
        \A n \in 1..Len(call.symmetryAtoms) :
            InRange(grid.header, call.symmetryAtoms[n].coord)

\* C22: the margin is 5 grid cells: a transformed atom is in the output iff it lies
\* within 5 times the grid spacing of the box on every axis.
C22_MarginInGridCells ==
    SymmetryReturned =>
        \A ijk \in Offsets :
            \A r \in 0..(Len(call.rotationMats) - 1) :
                \A a \in 1..Len(call.atoms) :
                    ~IsSourceCase(ijk, r) =>
                        (Retained(a, ijk, r)
                         <=> InRangeCells(grid.header,
                                          SymCoord(call.rotationMats[r + 1], OtMat(file, ijk),
                                                   call.atoms[a])))

\* a call of validation has returned or raised
ValidationReturned == pc = "returned" /\ call.op = "validation"

\* the call went past the early return and the subtraction
ModelGridBuilt == ValidationReturned /\ call.res.built

\* the value of the array of the matrix at ref in heap
DensityOf(heap, ref) == heap[heap[ref].density].val

\* C23: validation builds the model grid (density minus twice the difference
\* density) as a new grid instance, and leaves every object that existed before the
\* call, the voxel arrays and headers of both input grids among them, as it was
C23_ModelGridIsFresh ==
    /\ ValidationReturned =>
          \A ref \in 1..Len(call.before) : call.heap[ref] = call.before[ref]
    /\ ModelGridBuilt =>
          /\ call.res.fc > Len(call.before)
          /\ call.res.fo > Len(call.before)
          /\ call.res.fc # call.res.fo
          /\ call.heap[call.res.fc].density > Len(call.before)
          /\ call.heap[call.res.fc].header > Len(call.before)
          /\ \A ix \in DOMAIN DensityOf(call.heap, call.res.fc) :
                DensityOf(call.heap, call.res.fc)[ix]
                    = DensityOf(call.before, call.res.densityObj)[ix]
                      - 2 * DensityOf(call.before, call.res.diffDensityObj)[ix]

\* a model grid was built from two grids with different voxels
C23_Witness ==
    /\ ModelGridBuilt
    /\ call.res.densityObj # call.res.diffDensityObj
    /\ DensityOf(call.heap, call.res.fc) # DensityOf(call.heap, call.res.densityObj)
    /\ DensityOf(call.heap, call.res.densityObj) # DensityOf(call.heap, call.res.diffDensityObj)
    /\ call.self.statistics = "stats"

\* ceil(radius / spacing) along the Cartesian axis of each index of a crs
\* coordinate, in the coordinate's order (section, row, column)
AxisRadius(h, radius) ==
    LET xyzRadius == [i \in 1..3 |-> FCeil(FDiv(radius, h.gridLength[i]))]
    IN  <<PyGet(xyzRadius, h.map2crs[3]), PyGet(xyzRadius, h.map2crs[2]),
          PyGet(xyzRadius, h.map2crs[1])>>

\* C24: every cell a sphere query returns differs from the centre's cell, on each
\* grid axis, by at most ceil(radius / spacing) of the Cartesian axis that grid axis
\* maps to, whatever the three spacings and the order of the axes
C24_OffsetsOnOwnAxis ==
    (SphereReturned /\ call.err = "none") =>
        \A n \in 1..Len(call.list) :
            \A p \in 1..3 :
                Abs(call.list[n][p] - xyz2crsCoord(grid.header, call.xyz)[p])
                    <= AxisRadius(grid.header, call.radius)[p]

\* the number of rounds of the while loop that lead from the seed to the sets
\* (old, new), counted by running the loop again; more than Len(list) if none does
RECURSIVE RoundsFrom(_, _, _, _)
RoundsFrom(list, old, new, k) ==
    IF (old = oldSet /\ new = newSet) \/ k > Len(list) THEN k
    ELSE RoundsFrom(list, new, new \cup AdjacentSet(list, new \ old), k + 1)

\* the rounds the current seed's while loop has made
RoundsDone == RoundsFrom(crsCoordList, {}, {ind}, 0)

\* C25: for every finite list of candidates the clustering ends: while a seed's
\* loop runs it has made fewer rounds than there are candidates (so it breaks in
\* at most that many), a seed is in no cluster built before it (so no candidate is
\* a seed twice), there are never more clusters than candidates, and the outer loop
\* reaches its end
C25_ClusteringTerminates ==
    /\ [](pc = "inner" =>
            /\ RoundsDone < Len(crsCoordList)
            /\ \A k \in 1..Len(adjSetList) : ind \notin adjSetList[k])
    /\ [](Len(adjSetList) <= Len(crsCoordList))
    /\ <>ClusteringDone

\* the clustering of three candidates ended with a cluster of two and a cluster of
\* one
C25_Witness ==
    /\ ClusteringDone
    /\ Len(crsCoordList) = 3
    /\ Len(adjSetList) = 2
    /\ \E k \in 1..2 : Cardinality(adjSetList[k]) = 2

\* C26: in every grid parse returns for a file whose axis triple is a permutation
\* of (1, 2, 3) or the zero triple, map2crs is the header's final (col2xyz, row2xyz,
\* sec2xyz) counted from 0, these are a permutation of the three axes, and map2xyz
\* is its inverse
C26_AxisMapsAgree ==
    (Parsed /\ grid.err = "none" /\ (IsPermutation(file.c2x) \/ file.c2x = <<0, 0, 0>>)) =>
        /\ IsPermutation(<<grid.header.col2xyz, grid.header.row2xyz, grid.header.sec2xyz>>)
        /\ grid.header.map2crs = <<grid.header.col2xyz - 1, grid.header.row2xyz - 1,
                                   grid.header.sec2xyz - 1>>
        /\ \A i \in 1..3 : grid.header.map2xyz[grid.header.map2crs[i] + 1] = i - 1

\* C27: a density lookup leaves the list it is given as it was, and every cell a
\* sphere query with cutoff 0 returns is the centre's cell plus one enumerated
\* offset, in the order of the loops, also for cells outside the grid's extent
C27_LookupLeavesCoordinate ==
    /\ LookupReturned => call.crs = call.arg
    /\ (SphereReturned /\ call.err = "none" /\ call.cutoff = 0) =>
          call.list = EnumeratedCells(grid.header, xyz2crsCoord(grid.header, call.xyz),
                                      SphereRadius(grid.header, call.radius))

\* a property of the object has been read
PropertyRead == pc = "object" /\ call.reads >= 1

\* the array coords holds the coordinate of each entry of atoms, index by index
CoordsMatch(coords, atoms) ==
    /\ coords.set /\ atoms.set
    /\ Len(coords.val) = Len(atoms.val)
    /\ \A n \in 1..Len(atoms.val) : coords.val[n] = atoms.val[n].coord

\* C28: after any sequence of reads of the four properties the replication has run
\* once and no more, the four fields are assigned and stay as that run left them,
\* each coordinate array matches its atom list index by index, symmetryOnlyAtoms is
\* the entries of symmetryAtoms whose tag is not (0,0,0,0), in their order, and a read
\* returns the field of its name
C28_ComputedOnce ==
    /\ [](pc = "object" => call.runs <= 1)
    /\ [](PropertyRead =>
            /\ call.runs = 1
            /\ CoordsMatch(call.self.symmetryAtomCoords, call.self.symmetryAtoms)
            /\ CoordsMatch(call.self.symmetryOnlyAtomCoords, call.self.symmetryOnlyAtoms)
            /\ call.self.symmetryOnlyAtoms.val
                   = SelectSeq(call.self.symmetryAtoms.val,
                               LAMBDA x : x.symmetry # <<0, 0, 0, 0>>)
            /\ call.result = call.self[call.op])
    /\ [][PropertyRead => call'.self = call.self]_vars

\* a third read, of another property, of an object with source atoms and copies
C28_Witness ==
    /\ PropertyRead
    /\ call.reads = 3
    /\ call.op = "symmetryOnlyAtomCoords"
    /\ call.result.val # <<>>
    /\ Len(call.self.symmetryAtoms.val) > Len(call.self.symmetryOnlyAtoms.val)
    /\ call.runs = 1

\* a call of aggregateCloud has returned
Aggregated == pc = "object" /\ call.op = "aggregateCloud"

\* C29: a call of aggregateCloud that returns 0 (no electrons, too few atoms, or the
\* statistics raise) leaves chainMedian, chainNvoxel, chainTotalE, chainTotalDensity,
\* medians, atomList, residueList and chainList as they were, and a call that
\* reaches its end assigns chainMedian, chainNvoxel, chainTotalE, chainTotalDensity
\* and medians together, from that call's totals
C29_ResultsAllOrNothing ==
    /\ (Aggregated /\ call.outcome = "failed") => call.self = call.before
    /\ (Aggregated /\ call.outcome = "done") =>
          /\ call.self.chainMedian
                 = Field(FDiv(IntToF(call.in.totalDensity), IntToF(call.in.totalElectrons)))
          /\ call.self.chainNvoxel = Field(call.in.numVoxels)
          /\ call.self.chainTotalE = Field(call.in.totalElectrons)
          /\ call.self.chainTotalDensity = Field(call.in.totalDensity)
          /\ call.self.medians.set

\* a second call fails in the statistics after a first call succeeded
C29_Witness ==
    /\ Aggregated
    /\ call.calls = 2
    /\ call.outcome = "failed"
    /\ call.in.raises
    /\ call.in.totalElectrons # 0
    /\ call.in.atomRows >= call.in.minTotalAtoms
    /\ call.before.chainMedian.set

====
